---- MODULE Spec2Model ----
(***************************************************************************)
(* Model of the chat-replies server: the message store (chats, messages,   *)
(* message_reply_metadata), MessageService's message and reply creation,   *)
(* the streaming response engine (create_message_with_streaming_response / *)
(* reply_to_message_with_streaming_response) and the SSE generators of the *)
(* messages router (generate_sse_stream / generate_reply_sse_stream).      *)
(*                                                                         *)
(* Text is a sequence of one-character strings.  Every streaming request   *)
(* is an invocation i \in Inv; one action is one resumption of the         *)
(* request's generator chain, from one yield (or the start) to the next.   *)
(***************************************************************************)
EXTENDS Integers, Sequences, FiniteSets, TLC

\* ------------------------------------------------------------------ bounds
\* Number of streaming requests (invocations) of one run.
NumInv == 2
\* Number of chunks the generation backend delivers in one run, to all
\* invocations together.
MaxFragments == 2
\* Longest message content given to the reply range validator on its own.
MaxLen == 2
\* Largest index given to the reply range validator on its own.
MaxIndex == 3

Inv == 1..NumInv

\* ------------------------------------------------------------------ values
USER == "user"
AI == "ai"

\* Chat ids of requests; "nonexistent-id" is never the id of a stored chat.
\* Messages are sent to chat c1; chat c2 exists and stays empty.
ChatIds == {"c1", "c2", "nonexistent-id"}
SendChatIds == {"c1", "nonexistent-id"}
InitialChats == {"c1", "c2"}

\* Content of the user's message of a request (MessageBase.content, min_length 1).
UserContents == {<<"h", "i">>}

\* (start_index, end_index) of the reply requests: a range inside every content,
\* an empty range, a range that ends beyond the content.
ReplyRanges == {<<0, 1>>, <<1, 1>>, <<1, 3>>}

\* What llm.astream delivers as chunk.content: the empty string, a letter, a blank.
BackendChunks == {<<>>, <<"a">>, <<" ">>}

\* ----------------------------------------------------------------- str.strip
IsSpace(c) == c = " "

RECURSIVE lstrip(_)
lstrip(s) ==
    IF s = <<>> THEN s
    ELSE IF IsSpace(Head(s)) THEN lstrip(Tail(s)) ELSE s

RECURSIVE rstrip(_)
rstrip(s) ==
    IF s = <<>> THEN s
    ELSE IF IsSpace(s[Len(s)]) THEN rstrip(SubSeq(s, 1, Len(s) - 1)) ELSE s

strip(s) == rstrip(lstrip(s))

\* ------------------------------------------------------------------- state
VARIABLES
    chats,                \* ids of the rows of table chats
    messages,             \* table messages, in insertion order
    reply_metadata,       \* table message_reply_metadata, in insertion order
    next_id,              \* the next fresh uuid4 (row ids, pre-allocated ids)
    pc,                   \* per invocation: "idle" | "streaming" | "done"
    req,                  \* per invocation: the request it serves
    message_id,           \* per invocation: the pre-allocated id of the AI message
    accumulated_content,  \* per invocation: the accumulator
    fed,                  \* per invocation: chunks the backend has delivered
    chunks,               \* per invocation: StreamChunks the engine has yielded
    frames,               \* per invocation: SSE frames the router generator has yielded
    stream_end,           \* per invocation: how the engine's try block was left
    outcome,              \* per invocation: how the engine's generator ended
    persist_runs,         \* per invocation: executions of the finally block
    commits,              \* per invocation: commits attempted for the AI message
    probe,                \* a pure function applied on its own: input and result
    pending,              \* per session: rows flushed in its open transaction
    observed,             \* what another session's read returned last
    chat_fields,          \* per chat: title, created_at, updated_at of its row
    llm_chunks            \* per invocation: what llm.astream has delivered

vars == <<chats, messages, reply_metadata, next_id, pc, req, message_id,
          accumulated_content, fed, llm_chunks, chunks, frames, stream_end, outcome,
          persist_runs, commits, probe, pending, observed, chat_fields,
          llm_chunks>>

dbVars == <<chats, chat_fields, messages, reply_metadata>>
txVars == <<pending, observed>>

NoReq == [kind |-> "none"]

\* Chat(title=...) row: created_at and updated_at default to the instant of
\* insertion (instant 0 for the chats of the initial state).
Titles == {"t1", "t2"}
Chat(title) == [title |-> title, created_at |-> 0, updated_at |-> 0]
InitialChatFields == [c \in InitialChats |-> Chat("t1")]

RECURSIVE SumTo(_, _)
SumTo(f, n) == IF n = 0 THEN 0 ELSE f[n] + SumTo(f, n - 1)
\* Chunks the backend has delivered so far, to all invocations.
Delivered == SumTo(fed, NumInv)
NoProbe == [fn |-> "none"]
NoPending == <<>>
NotObserved == [read |-> FALSE]

\* ------------------------------------------------------- storage operations
\* Message(...) row; created_at is the instant of insertion.
Message(id, chat_id, content, sender) ==
    [id |-> id, chat_id |-> chat_id, content |-> content, sender |-> sender,
     created_at |-> Len(messages) + 1]

\* MessageReplyMetadata(message_id, start_index, end_index): parent_id is not
\* passed by _create_message_reply, so the column value is NULL.
NULL == "NULL"
MessageReplyMetadata(id, msg_id, start_index, end_index) ==
    [id |-> id, message_id |-> msg_id, parent_id |-> NULL,
     start_index |-> start_index, end_index |-> end_index]

\* Column(..., nullable=False) of message_reply_metadata.parent_id.
ViolatesNotNull(md) == md.parent_id = NULL

\* select(Chat).where(Chat.id == chat_id): "" when the chat exists.
_get_chat(chat_id) ==
    IF chat_id \in chats THEN "" ELSE "ChatNotFoundError"

\* select(Message).where(Message.id == message_id, Message.chat_id == chat_id)
MatchingMessages(chat_id, msg_id) ==
    {k \in 1..Len(messages) :
        messages[k].id = msg_id /\ messages[k].chat_id = chat_id}

\* Ids of the stored messages; 0 is the id of no message.
StoredIds == {messages[k].id : k \in 1..Len(messages)}

\* get_message selecting by the message id alone.
getMessageOfAnyChat(chat_id, msg_id) ==
    IF msg_id \notin StoredIds
    THEN [error |-> "MessageNotFoundError"]
    ELSE [error |-> "",
          message |-> messages[CHOOSE k \in 1..Len(messages) :
                                   messages[k].id = msg_id]]

\* MessageService.get_message: scalar_one_or_none of the select, and
\* MessageNotFoundError when there is no row.
get_message(chat_id, msg_id) ==
    IF MatchingMessages(chat_id, msg_id) = {}
    THEN [error |-> "MessageNotFoundError"]
    ELSE [error |-> "",
          message |-> messages[CHOOSE k \in MatchingMessages(chat_id, msg_id) : TRUE]]

\* ------------------------------------------------------ reply range validator
validate_range(start_index, end_index) ==
    IF start_index >= end_index THEN "InvalidReplyRangeError" ELSE ""

\* validate with the end of the range compared one off.
validateOffByOne(start_index, end_index, message_content) ==
    IF validate_range(start_index, end_index) # ""
    THEN validate_range(start_index, end_index)
    ELSE IF end_index > Len(message_content) + 1 THEN "InvalidReplyRangeError"
    ELSE IF start_index < 0 THEN "InvalidReplyRangeError"
    ELSE ""

validate(start_index, end_index, message_content) ==
    IF validate_range(start_index, end_index) # ""
    THEN validate_range(start_index, end_index)
    ELSE IF end_index > Len(message_content) THEN "InvalidReplyRangeError"
    ELSE IF start_index < 0 THEN "InvalidReplyRangeError"
    ELSE ""

\* --------------------------------------------------------- message creation
\* _create_message without the check that the chat exists.
createMessageUnchecked(chat_id, message_data, fault) ==
    IF fault
    THEN [error |-> "DatabaseError", messages |-> messages]
    ELSE [error |-> "",
          messages |-> Append(messages,
              Message(next_id, chat_id, message_data.content, message_data.sender))]

\* _create_message: fault is the commit raising IntegrityError.
_create_message(chat_id, message_data, fault) ==
    IF _get_chat(chat_id) # ""
    THEN [error |-> _get_chat(chat_id), messages |-> messages]
    ELSE IF fault
    THEN [error |-> "DatabaseError", messages |-> messages]
    ELSE [error |-> "",
          messages |-> Append(messages,
              Message(next_id, chat_id, message_data.content, message_data.sender))]

\* _create_message_reply validating the range after the reply row was committed.
createReplyThenValidate(chat_id, msg_id, reply_data) ==
    LET unchanged == [messages |-> messages, reply_metadata |-> reply_metadata]
        original  == get_message(chat_id, msg_id)
        reply     == Message(next_id, chat_id, reply_data.content, reply_data.sender)
    IN  IF _get_chat(chat_id) # ""
        THEN [error |-> _get_chat(chat_id)] @@ unchanged
        ELSE IF original.error # ""
        THEN [error |-> original.error] @@ unchanged
        ELSE IF validate(reply_data.reply_metadata.start_index,
                         reply_data.reply_metadata.end_index,
                         original.message.content) # ""
        THEN [error |-> "InvalidReplyRangeError",
              messages |-> Append(messages, reply),
              reply_metadata |-> reply_metadata]
        ELSE [error |-> "DatabaseError"] @@ unchanged

\* _create_message_reply: the reply row is flushed, the metadata row is added
\* and both are committed together; the IntegrityError of a violated constraint
\* rolls both back.
_create_message_reply(chat_id, msg_id, reply_data) ==
    LET unchanged == [messages |-> messages, reply_metadata |-> reply_metadata]
        original  == get_message(chat_id, msg_id)
        reply     == Message(next_id, chat_id, reply_data.content, reply_data.sender)
        md        == MessageReplyMetadata(next_id + 1, reply.id,
                        reply_data.reply_metadata.start_index,
                        reply_data.reply_metadata.end_index)
    IN  IF _get_chat(chat_id) # ""
        THEN [error |-> _get_chat(chat_id)] @@ unchanged
        ELSE IF original.error # ""
        THEN [error |-> original.error] @@ unchanged
        ELSE IF validate(reply_data.reply_metadata.start_index,
                         reply_data.reply_metadata.end_index,
                         original.message.content) # ""
        THEN [error |-> validate(reply_data.reply_metadata.start_index,
                                 reply_data.reply_metadata.end_index,
                                 original.message.content)] @@ unchanged
        ELSE IF ViolatesNotNull(md)
        THEN [error |-> "DatabaseError"] @@ unchanged
        ELSE [error |-> "",
              messages |-> Append(messages, reply),
              reply_metadata |-> Append(reply_metadata, md)]

\* ---------------------------------------------------------- streaming engine
\* StreamChunk(content, is_final, message_id)
StreamChunk(content, is_final, id) ==
    [content |-> content, is_final |-> is_final, message_id |-> id]

\* PersistAccumulated with the row added and committed twice.
PersistTwice(i, fault) ==
    LET row == Message(message_id[i], req[i].chat_id,
                       strip(accumulated_content[i]), AI)
    IN  IF strip(accumulated_content[i]) # <<>>
        THEN IF fault
             THEN [error |-> "DatabaseError", messages |-> messages, commits |-> 1]
             ELSE [error |-> "", messages |-> Append(Append(messages, row), row),
                   commits |-> 1]
        ELSE [error |-> "", messages |-> messages, commits |-> 0]

\* PersistAccumulated storing the accumulator as it is, not stripped.
PersistUnstripped(i, fault) ==
    IF strip(accumulated_content[i]) # <<>>
    THEN IF fault
         THEN [error |-> "DatabaseError", messages |-> messages, commits |-> 1]
         ELSE [error |-> "",
               messages |-> Append(messages,
                   Message(message_id[i], req[i].chat_id,
                           accumulated_content[i], AI)),
               commits |-> 1]
    ELSE [error |-> "", messages |-> messages, commits |-> 0]

\* PersistAccumulated without the test of the stripped accumulator.
PersistAlways(i, fault) ==
    IF fault
    THEN [error |-> "DatabaseError", messages |-> messages, commits |-> 1]
    ELSE [error |-> "",
          messages |-> Append(messages,
              Message(message_id[i], req[i].chat_id,
                      strip(accumulated_content[i]), AI)),
          commits |-> 1]

\* PersistAccumulated whose failed commit is not rolled back.
PersistNoRollback(i, fault) ==
    IF strip(accumulated_content[i]) # <<>>
    THEN [error |-> IF fault THEN "DatabaseError" ELSE "",
          messages |-> Append(messages,
              Message(message_id[i], req[i].chat_id,
                      strip(accumulated_content[i]), AI)),
          commits |-> 1]
    ELSE [error |-> "", messages |-> messages, commits |-> 0]

\* The accumulators of the invocations 1..n, one after the other.
RECURSIVE AllAccumulated(_)
AllAccumulated(n) ==
    IF n = 0 THEN <<>> ELSE AllAccumulated(n - 1) \o accumulated_content[n]

\* The finally block persisting an accumulator that the requests share.
PersistSharedAccumulator(i, fault) ==
    IF strip(AllAccumulated(NumInv)) # <<>>
    THEN IF fault
         THEN [error |-> "DatabaseError", messages |-> messages, commits |-> 1]
         ELSE [error |-> "",
               messages |-> Append(messages,
                   Message(message_id[i], req[i].chat_id,
                           strip(AllAccumulated(NumInv)), AI)),
               commits |-> 1]
    ELSE [error |-> "", messages |-> messages, commits |-> 0]

\* The finally block writing the accumulated text over the newest stored row
\* (an UPDATE of a persisted message) instead of inserting a row.
PersistOverwrites(i, fault) ==
    IF strip(accumulated_content[i]) # <<>>
    THEN IF fault
         THEN [error |-> "DatabaseError", messages |-> messages, commits |-> 1]
         ELSE [error |-> "",
               messages |-> [messages EXCEPT ![Len(messages)] =
                   [@ EXCEPT !.content = strip(accumulated_content[i]),
                             !.sender = AI]],
               commits |-> 1]
    ELSE [error |-> "", messages |-> messages, commits |-> 0]

\* The finally block of the engine: persist what was accumulated.  fault is the
\* commit of the AI message raising IntegrityError.
PersistAccumulated(i, fault) ==
    IF strip(accumulated_content[i]) # <<>>
    THEN IF fault
         THEN [error |-> "DatabaseError", messages |-> messages, commits |-> 1]
         ELSE [error |-> "",
               messages |-> Append(messages,
                   Message(message_id[i], req[i].chat_id,
                           strip(accumulated_content[i]), AI)),
               commits |-> 1]
    ELSE [error |-> "", messages |-> messages, commits |-> 0]

\* ------------------------------------------------------------- SSE generator
\* SseData writing the chunk as a comment line instead of a data line.
SseComment(chunk) == [comment |-> chunk]

\* f"data: {chunk.model_dump_json()}\n\n"
SseData(chunk) == [data |-> chunk]
\* SseError without the end-of-stream mark.
SseErrorNotFinal(e) == [data |-> [error |-> e, is_final |-> FALSE]]

\* the frame of the except branch: {"error": str(e), "is_final": True}
SseError(e) == [data |-> [error |-> e, is_final |-> TRUE]]

\* ------------------------------------------------------------------- Init
Init ==
    /\ chats = InitialChats
    /\ chat_fields = InitialChatFields
    /\ messages = <<>>
    /\ reply_metadata = <<>>
    /\ next_id = 1
    /\ pc = [i \in Inv |-> "idle"]
    /\ req = [i \in Inv |-> NoReq]
    /\ message_id = [i \in Inv |-> 0]
    /\ accumulated_content = [i \in Inv |-> <<>>]
    /\ fed = [i \in Inv |-> 0]
    /\ llm_chunks = [i \in Inv |-> <<>>]
    /\ chunks = [i \in Inv |-> <<>>]
    /\ frames = [i \in Inv |-> <<>>]
    /\ stream_end = [i \in Inv |-> "none"]
    /\ outcome = [i \in Inv |-> "none"]
    /\ persist_runs = [i \in Inv |-> 0]
    /\ commits = [i \in Inv |-> 0]
    /\ probe = NoProbe
    /\ pending = [i \in Inv |-> NoPending]
    /\ observed = NotObserved

\* Requests are taken up in the order of their numbers.
MayStart(i) ==
    /\ pc[i] = "idle"
    /\ \A j \in Inv : j < i => pc[j] # "idle"

\* The invocation ends before the engine streams: the exception reaches the
\* except branch of the SSE generator, which yields the error frame.
FailBeforeStream(i, r, e) ==
    /\ pc' = [pc EXCEPT ![i] = "done"]
    /\ req' = [req EXCEPT ![i] = r]
    /\ outcome' = [outcome EXCEPT ![i] = e]
    /\ frames' = [frames EXCEPT ![i] = Append(@, SseError(e))]
    /\ UNCHANGED <<message_id, accumulated_content, fed, llm_chunks, chunks, stream_end,
                   persist_runs, commits>>

\* The engine allocates the id of the AI message and starts to stream.
BeginStream(i, r, id) ==
    /\ pc' = [pc EXCEPT ![i] = "streaming"]
    /\ req' = [req EXCEPT ![i] = r]
    /\ message_id' = [message_id EXCEPT ![i] = id]
    /\ accumulated_content' = [accumulated_content EXCEPT ![i] = <<>>]
    /\ UNCHANGED <<outcome, frames, fed, llm_chunks, chunks, stream_end, persist_runs,
                   commits>>

\* POST /{chat_id}/messages/stream, up to the first wait for the backend:
\* generate_sse_stream enters create_message_with_streaming_response, which
\* stores the user's message, builds the context and allocates message_id.
SendStart(i) ==
    /\ MayStart(i)
    /\ \E chat_id \in SendChatIds, content \in UserContents, fault \in BOOLEAN :
         LET r == [kind |-> "send", chat_id |-> chat_id, content |-> content,
                   sender |-> USER]
             c == _create_message(chat_id, r, fault)
         IN  /\ messages' = c.messages
             /\ IF c.error # ""
                THEN /\ FailBeforeStream(i, r, c.error)
                     /\ UNCHANGED next_id
                ELSE /\ BeginStream(i, r, next_id + 1)
                     /\ next_id' = next_id + 2
    /\ UNCHANGED <<chats, chat_fields, reply_metadata, probe, txVars>>

\* POST /{chat_id}/messages/{message_id}/reply/stream, up to the first wait for
\* the backend: generate_reply_sse_stream enters
\* reply_to_message_with_streaming_response, which stores the user's reply and
\* assembles the reply chain; _get_reply_chain reads .messages of the list that
\* get_chat_messages returns, which raises AttributeError.
ReplyStart(i) ==
    /\ MayStart(i)
    /\ \E chat_id \in ChatIds, msg_id \in {0} \cup StoredIds,
          content \in UserContents, range \in ReplyRanges :
         LET r == [kind |-> "reply", chat_id |-> chat_id, message_id |-> msg_id,
                   content |-> content, sender |-> AI,
                   reply_metadata |-> [start_index |-> range[1],
                                       end_index |-> range[2],
                                       parent_id |-> msg_id]]
             c == _create_message_reply(chat_id, msg_id, r)
         IN  /\ messages' = c.messages
             /\ reply_metadata' = c.reply_metadata
             /\ IF c.error # ""
                THEN /\ FailBeforeStream(i, r, c.error)
                     /\ UNCHANGED next_id
                ELSE /\ FailBeforeStream(i, r, "AttributeError")
                     /\ next_id' = next_id + 2
    /\ UNCHANGED <<chats, chat_fields, probe, txVars>>

\* Fragment with _stream_ai_response yielding every chunk, the empty ones too.
FragmentKeepsEmpty(i) ==
    /\ pc[i] = "streaming"
    /\ Delivered < MaxFragments
    /\ \E llm_chunk \in BackendChunks :
         /\ fed' = [fed EXCEPT ![i] = @ + 1]
         /\ llm_chunks' = [llm_chunks EXCEPT ![i] = Append(@, llm_chunk)]
         /\ accumulated_content' =
                [accumulated_content EXCEPT ![i] = @ \o llm_chunk]
         /\ chunks' = [chunks EXCEPT ![i] =
                Append(@, StreamChunk(llm_chunk, FALSE, message_id[i]))]
         /\ frames' = [frames EXCEPT ![i] =
                Append(@, SseData(StreamChunk(llm_chunk, FALSE, message_id[i])))]
    /\ UNCHANGED <<dbVars, next_id, pc, req, message_id, stream_end, outcome,
                   persist_runs, commits, probe, txVars>>

\* The backend delivers one chunk: _stream_ai_response drops it when its
\* content is empty; otherwise the engine appends it to the accumulator and
\* yields a non-final StreamChunk, which the SSE generator yields as a frame.
Fragment(i) ==
    /\ pc[i] = "streaming"
    /\ Delivered < MaxFragments
    /\ \E llm_chunk \in BackendChunks :
         /\ fed' = [fed EXCEPT ![i] = @ + 1]
         /\ llm_chunks' = [llm_chunks EXCEPT ![i] = Append(@, llm_chunk)]
         /\ IF llm_chunk # <<>>
            THEN /\ accumulated_content' =
                        [accumulated_content EXCEPT ![i] = @ \o llm_chunk]
                 /\ chunks' = [chunks EXCEPT ![i] =
                        Append(@, StreamChunk(llm_chunk, FALSE, message_id[i]))]
                 /\ frames' = [frames EXCEPT ![i] =
                        Append(@, SseData(StreamChunk(llm_chunk, FALSE, message_id[i])))]
            ELSE UNCHANGED <<accumulated_content, chunks, frames>>
    /\ UNCHANGED <<dbVars, next_id, pc, req, message_id, stream_end, outcome,
                   persist_runs, commits, probe, txVars>>

\* AfterTry as a plain statement after the loop: skipped when the loop raises.
AfterTryNoFinally(i, how, fault) ==
    IF how = "exhausted"
    THEN PersistAccumulated(i, fault) @@ [runs |-> 1]
    ELSE [error |-> "", messages |-> messages, commits |-> 0, runs |-> 0]

\* try: ... finally: the finally block runs however the try block is left.
AfterTry(i, how, fault) == PersistAccumulated(i, fault) @@ [runs |-> 1]

\* The exception in flight when the finally block is done: the DatabaseError
\* it raised, else the exception that left the try block, else none ("").
InFlightAfterFinally(how, persist_error) ==
    IF persist_error # "" THEN persist_error
    ELSE IF how = "failed" THEN "BackendError"
    ELSE IF how = "closed" THEN "GeneratorExit"
    ELSE ""

\* EngineChunksAtEnd with the terminator yielded inside the finally block.
EngineChunksTerminatorAlways(i, err) ==
    Append(chunks[i], StreamChunk(<<>>, TRUE, message_id[i]))

\* What the engine has yielded when it ends: the terminator chunk follows the
\* finally block, so it is yielded only when no exception is in flight.
EngineChunksAtEnd(i, err) ==
    IF err = ""
    THEN Append(chunks[i], StreamChunk(<<>>, TRUE, message_id[i]))
    ELSE chunks[i]

\* What the SSE generator has yielded when it ends: a closed generator yields
\* nothing more; an exception of the engine is caught and yields the error
\* frame; otherwise the terminator chunk is passed on as a data frame.
SseFramesAtEnd(i, how, err) ==
    IF how = "closed" THEN frames[i]
    ELSE IF err = ""
    THEN Append(frames[i], SseData(StreamChunk(<<>>, TRUE, message_id[i])))
    ELSE Append(frames[i], SseError(err))

\* The try block of the engine is left in the way `how`: "exhausted" (the
\* backend's sequence ended), "failed" (the backend raised) or "closed" (the
\* consumer closed the stream while the engine was suspended at a yield).  The
\* finally block runs, then the engine and the SSE generator end.
Finish(i, how, fault) ==
    LET p   == AfterTry(i, how, fault)
        err == InFlightAfterFinally(how, p.error)
    IN  /\ pc[i] = "streaming"
        /\ pc' = [pc EXCEPT ![i] = "done"]
        /\ stream_end' = [stream_end EXCEPT ![i] = how]
        /\ messages' = p.messages
        /\ persist_runs' = [persist_runs EXCEPT ![i] = @ + p.runs]
        /\ commits' = [commits EXCEPT ![i] = @ + p.commits]
        /\ outcome' = [outcome EXCEPT ![i] = IF err = "" THEN "completed" ELSE err]
        /\ chunks' = [chunks EXCEPT ![i] = EngineChunksAtEnd(i, err)]
        /\ frames' = [frames EXCEPT ![i] = SseFramesAtEnd(i, how, err)]
        /\ UNCHANGED <<chats, chat_fields, reply_metadata, next_id, req, message_id,
                       accumulated_content, fed, llm_chunks, probe, txVars>>

\* llm.astream is exhausted.
Exhausted(i) ==
    /\ pc[i] = "streaming"
    /\ \E fault \in BOOLEAN : Finish(i, "exhausted", fault)

\* llm.astream (or the construction of the backend handle) raises.
BackendFail(i) ==
    /\ pc[i] = "streaming"
    /\ \E fault \in BOOLEAN : Finish(i, "failed", fault)

\* The consumer closes the stream after at least one frame: the generators are
\* suspended at their yields, GeneratorExit is raised there, which the except
\* branch of the SSE generator (except Exception) does not catch, and the
\* engine's finally block runs when the engine's generator is closed.
Disconnect(i) ==
    /\ frames[i] # <<>>
    /\ \E fault \in BOOLEAN : Finish(i, "closed", fault)

Next ==
    \E i \in Inv :
        \/ SendStart(i)
        \/ ReplyStart(i)
        \/ Fragment(i)
        \/ Exhausted(i)
        \/ BackendFail(i)
        \/ Disconnect(i)

Spec == Init /\ [][Next]_vars

\* ------------------------------------------- pure functions on their own
\* The texts of the side-channel note: if len(text) > 100:
\*     text = text[:50] + "..." + text[-50:]
NoteLimit == 100
NoteHalf == 50
MaxOver == 3
Ellipsis == <<".", ".", ".">>
shorten(text) ==
    IF Len(text) > NoteLimit
    THEN SubSeq(text, 1, NoteHalf) \o Ellipsis
             \o SubSeq(text, Len(text) - NoteHalf + 1, Len(text))
    ELSE text

\* A text of n characters, and the texts shortened on their own: of no
\* character, of one, and of the lengths around the limit.
LongText(n) == [k \in 1..n |-> IF k % 2 = 1 THEN "a" ELSE "b"]
NoteLengths == (0..1) \cup ((NoteLimit - 1)..(NoteLimit + MaxOver))
ShortenInputs ==
    {[fn |-> "shorten", text |-> LongText(n), done |-> FALSE, result |-> <<>>] :
        n \in NoteLengths}

Char == {"a", " "}
\* Every text of at most n characters.
Texts(n) == UNION {[1..k -> Char] : k \in 0..n}

\* extract_reply_text rejecting a range that ends at the end of the content.
extractBeforeEnd(content, start_index, end_index) ==
    IF start_index < 0 \/ end_index >= Len(content) \/ start_index >= end_index
    THEN <<>>
    ELSE SubSeq(content, start_index + 1, end_index)

\* extract_reply_text: "" for a range outside the content or empty, else the
\* slice content[start_index:end_index].
extract_reply_text(content, start_index, end_index) ==
    IF start_index < 0 \/ end_index > Len(content) \/ start_index >= end_index
    THEN <<>>
    ELSE SubSeq(content, start_index + 1, end_index)

ExtractInputs ==
    {[fn |-> "extract_reply_text", start_index |-> s, end_index |-> e,
      content |-> c, done |-> FALSE, result |-> <<>>] :
        s \in (-1)..MaxIndex, e \in (-1)..MaxIndex, c \in Texts(MaxLen)}

ValidateInputs ==
    {[fn |-> "validate", start_index |-> s, end_index |-> e, content |-> c,
      result |-> "pending"] :
        s \in (-1)..MaxIndex, e \in (-1)..MaxIndex, c \in Texts(MaxLen)}

InitPure ==
    /\ chats = InitialChats
    /\ chat_fields = InitialChatFields
    /\ messages = <<>>
    /\ reply_metadata = <<>>
    /\ next_id = 1
    /\ pc = [i \in Inv |-> "idle"]
    /\ req = [i \in Inv |-> NoReq]
    /\ message_id = [i \in Inv |-> 0]
    /\ accumulated_content = [i \in Inv |-> <<>>]
    /\ fed = [i \in Inv |-> 0]
    /\ llm_chunks = [i \in Inv |-> <<>>]
    /\ chunks = [i \in Inv |-> <<>>]
    /\ frames = [i \in Inv |-> <<>>]
    /\ stream_end = [i \in Inv |-> "none"]
    /\ outcome = [i \in Inv |-> "none"]
    /\ persist_runs = [i \in Inv |-> 0]
    /\ commits = [i \in Inv |-> 0]
    /\ probe \in ValidateInputs \cup ExtractInputs \cup ShortenInputs
    /\ pending = [i \in Inv |-> NoPending]
    /\ observed = NotObserved

\* MessageReplyMetadataBase.validate(message_content) is called.
ApplyValidate ==
    /\ probe.fn = "validate"
    /\ probe.result = "pending"
    /\ probe' = [probe EXCEPT !.result =
            validate(probe.start_index, probe.end_index, probe.content)]
    /\ UNCHANGED <<dbVars, next_id, pc, req, message_id, accumulated_content,
                   fed, llm_chunks, chunks, frames, stream_end, outcome, persist_runs,
                   commits, txVars>>

\* extract_reply_text(content, start_index, end_index) is called.
ApplyExtract ==
    /\ probe.fn = "extract_reply_text"
    /\ ~probe.done
    /\ probe' = [probe EXCEPT
            !.done = TRUE,
            !.result = extract_reply_text(probe.content, probe.start_index,
                                          probe.end_index)]
    /\ UNCHANGED <<dbVars, next_id, pc, req, message_id, accumulated_content,
                   fed, llm_chunks, chunks, frames, stream_end, outcome, persist_runs,
                   commits, txVars>>

\* The note's referenced_text or reply_text is shortened (lines 491-497).
ApplyShorten ==
    /\ probe.fn = "shorten"
    /\ ~probe.done
    /\ probe' = [probe EXCEPT !.done = TRUE, !.result = shorten(probe.text)]
    /\ UNCHANGED <<dbVars, next_id, pc, req, message_id, accumulated_content,
                   fed, llm_chunks, chunks, frames, stream_end, outcome, persist_runs,
                   commits, txVars>>

NextPure == ApplyValidate \/ ApplyExtract \/ ApplyShorten

SpecPure == InitPure /\ [][NextPure]_vars

\* ------------------------------------- _create_message_reply, step by step
\* Sessions call _create_message_reply on their own (each request has its own
\* AsyncSession); another session reads the tables while they run.

\* Lines 119-126: the chat, the target message and the range are checked
\* before anything is written; "" when all three pass.
CheckReply(chat_id, msg_id, reply_data) ==
    LET original == get_message(chat_id, msg_id)
    IN  IF _get_chat(chat_id) # "" THEN _get_chat(chat_id)
        ELSE IF original.error # "" THEN original.error
        ELSE validate(reply_data.reply_metadata.start_index,
                      reply_data.reply_metadata.end_index,
                      original.message.content)

\* FlushReply committing where the code flushes.
FlushReplyCommits(i, reply) ==
    [messages |-> Append(messages, reply), pending |-> NoPending]

\* db.add(reply_message); await db.flush(): the INSERT is sent inside the
\* session's open transaction, the table other sessions read is unchanged.
FlushReply(i, reply) ==
    [messages |-> messages, pending |-> <<reply>>]

\* db.add(reply_metadata); await db.commit(): the metadata row is inserted and
\* the transaction committed; the IntegrityError of a violated constraint is
\* caught, db.rollback() discards the flushed reply row, DatabaseError is raised.
CommitReply(i, md) ==
    IF ViolatesNotNull(md)
    THEN [error |-> "DatabaseError", messages |-> messages,
          reply_metadata |-> reply_metadata]
    ELSE [error |-> "", messages |-> messages \o pending[i],
          reply_metadata |-> Append(reply_metadata, md)]

\* What a statement of another session reads: the committed rows.
CommittedView ==
    [read |-> TRUE, messages |-> messages, reply_metadata |-> reply_metadata,
     during |-> {i \in Inv : pc[i] = "flushed"}]

InitReply ==
    /\ chats = InitialChats
    /\ chat_fields = InitialChatFields
    /\ messages = <<[id |-> 1, chat_id |-> "c1", content |-> <<"h", "i">>,
                     sender |-> USER, created_at |-> 1]>>
    /\ reply_metadata = <<>>
    /\ next_id = 2
    /\ pc = [i \in Inv |-> "idle"]
    /\ req = [i \in Inv |-> NoReq]
    /\ message_id = [i \in Inv |-> 0]
    /\ accumulated_content = [i \in Inv |-> <<>>]
    /\ fed = [i \in Inv |-> 0]
    /\ llm_chunks = [i \in Inv |-> <<>>]
    /\ chunks = [i \in Inv |-> <<>>]
    /\ frames = [i \in Inv |-> <<>>]
    /\ stream_end = [i \in Inv |-> "none"]
    /\ outcome = [i \in Inv |-> "none"]
    /\ persist_runs = [i \in Inv |-> 0]
    /\ commits = [i \in Inv |-> 0]
    /\ probe = NoProbe
    /\ pending = [i \in Inv |-> NoPending]
    /\ observed = NotObserved

\* _create_message_reply up to the flush (lines 119-134).  message_id[i] keeps
\* the id the reply row was given.
ReplyBegin(i) ==
    /\ MayStart(i)
    /\ \E chat_id \in SendChatIds, msg_id \in {0} \cup StoredIds,
          content \in UserContents, range \in ReplyRanges :
         LET r == [kind |-> "reply", chat_id |-> chat_id, message_id |-> msg_id,
                   content |-> content, sender |-> AI,
                   reply_metadata |-> [start_index |-> range[1],
                                       end_index |-> range[2],
                                       parent_id |-> msg_id]]
             e == CheckReply(chat_id, msg_id, r)
             f == FlushReply(i, Message(next_id, chat_id, r.content, r.sender))
         IN  /\ req' = [req EXCEPT ![i] = r]
             /\ IF e # ""
                THEN /\ pc' = [pc EXCEPT ![i] = "done"]
                     /\ outcome' = [outcome EXCEPT ![i] = e]
                     /\ UNCHANGED <<messages, pending, next_id, message_id>>
                ELSE /\ pc' = [pc EXCEPT ![i] = "flushed"]
                     /\ messages' = f.messages
                     /\ pending' = [pending EXCEPT ![i] = f.pending]
                     /\ message_id' = [message_id EXCEPT ![i] = next_id]
                     /\ next_id' = next_id + 1
                     /\ UNCHANGED outcome
    /\ UNCHANGED <<chats, chat_fields, reply_metadata, accumulated_content, fed, llm_chunks, chunks,
                   frames, stream_end, persist_runs, commits, probe, observed>>

\* _create_message_reply from the construction of the metadata row to its
\* return or raise (lines 136-149).
ReplyCommit(i) ==
    /\ pc[i] = "flushed"
    /\ LET md == MessageReplyMetadata(next_id, message_id[i],
                     req[i].reply_metadata.start_index,
                     req[i].reply_metadata.end_index)
           c  == CommitReply(i, md)
       IN  /\ messages' = c.messages
           /\ reply_metadata' = c.reply_metadata
           /\ outcome' = [outcome EXCEPT ![i] =
                              IF c.error = "" THEN "returned" ELSE c.error]
    /\ pending' = [pending EXCEPT ![i] = NoPending]
    /\ pc' = [pc EXCEPT ![i] = "done"]
    /\ next_id' = next_id + 1
    /\ UNCHANGED <<chats, chat_fields, req, message_id, accumulated_content, fed, llm_chunks, chunks,
                   frames, stream_end, persist_runs, commits, probe, observed>>

\* Another session reads the tables (a listing, the Context Assembler).
ReadTables ==
    /\ observed' = CommittedView
    /\ UNCHANGED <<dbVars, next_id, pc, req, message_id, accumulated_content,
                   fed, llm_chunks, chunks, frames, stream_end, outcome, persist_runs,
                   commits, probe, pending>>

NextReply ==
    \/ \E i \in Inv : ReplyBegin(i) \/ ReplyCommit(i)
    \/ ReadTables

SpecReply == InitReply /\ [][NextReply]_vars

\* ---------------------------------------------------- reads of a stored chat
\* The listing, the context of a send and the context of a reply, each called
\* on its own on tables that already hold a chat.

\* Most messages the stored chat holds.
MaxStore == 11

\* _get_last_chat_messages(chat_id, limit=10)
ContextLimit == 10
\* get_chat_messages(chat_id, limit=10, skip=skip, reverse=True); skip += 10
PageSize == 10
\* get_chat_messages(..., limit: int = 100, ...)
DefaultLimit == 100
\* _get_reply_chain(chat_id, message_id, min_length=10)
MinLength == 10

Digits == <<"0", "1", "2", "3", "4", "5", "6", "7", "8", "9">>
\* str(n), as in f"Message {i}".
RECURSIVE Decimal(_)
Decimal(n) ==
    IF n < 10 THEN <<Digits[n + 1]>>
    ELSE Decimal(n \div 10) \o <<Digits[(n % 10) + 1]>>

\* The k-th message created in chat c1: users and the AI take turns; tied says
\* that two writers at a time read the same instant off the clock.
StoredMessage(k, tied) ==
    [id |-> k, chat_id |-> "c1", content |-> Decimal(k),
     sender |-> IF k % 2 = 1 THEN USER ELSE AI,
     created_at |-> IF tied THEN (k + 1) \div 2 ELSE k]

\* A message of chat c2, created after the n messages of chat c1.
ForeignMessage(n) ==
    [id |-> n + 1, chat_id |-> "c2", content |-> <<"x">>, sender |-> USER,
     created_at |-> n + 1]

\* A row of message_reply_metadata as the table holds it (parent_id NOT NULL).
StoredReplyMetadata(id, msg_id, parent_id, start_index, end_index) ==
    [id |-> id, message_id |-> msg_id, parent_id |-> parent_id,
     start_index |-> start_index, end_index |-> end_index]

\* Rows of message_reply_metadata the table holds for the n messages of chat
\* c1: none; the newest message quoting its predecessor, which quotes its own
\* ("chain"); or the newest message quoting message n + 1, which is in chat c2
\* or does not exist ("orphan"); the two newest messages quoting each other
\* ("cycle"); or the newest message quoting itself ("self").
\* _create_message_reply as it stands stores no such row; they are rows
\* written to the table by other means.
StoredLinks(n, links) ==
    IF links = "chain" /\ n >= 3
    THEN <<StoredReplyMetadata(n + 2, n - 1, n - 2, 0, 1),
           StoredReplyMetadata(n + 3, n, n - 1, 0, 1)>>
    ELSE IF links = "orphan" /\ n >= 1
    THEN <<StoredReplyMetadata(n + 2, n, n + 1, 0, 1)>>
    ELSE IF links = "cycle" /\ n >= 2
    THEN <<StoredReplyMetadata(n + 2, n, n - 1, 0, 1),
           StoredReplyMetadata(n + 3, n - 1, n, 0, 1)>>
    ELSE IF links = "self" /\ n >= 1
    THEN <<StoredReplyMetadata(n + 2, n, n, 0, 1)>>
    ELSE <<>>

Store(n, tied, foreign, links) ==
    [messages |-> [k \in 1..n |-> StoredMessage(k, tied)]
                      \o (IF foreign THEN <<ForeignMessage(n)>> ELSE <<>>),
     reply_metadata |-> StoredLinks(n, links),
     next_id |-> n + 4]

Stores ==
    {Store(n, tied, foreign, links) :
        n \in 0..MaxStore, tied \in BOOLEAN, foreign \in BOOLEAN,
        links \in {"none", "chain", "orphan", "cycle", "self"}}

\* self.db as the statements of one call read it.
Db == [messages |-> messages, reply_metadata |-> reply_metadata]

None == [none |-> TRUE]

\* where(Message.chat_id == chat_id): positions of the chat's rows.
RowsOfChat(db, chat_id) ==
    {k \in 1..Len(db.messages) : db.messages[k].chat_id = chat_id}

\* order_by(Message.created_at.asc() | .desc()): every sequence of the rows in
\* which created_at never decreases (never increases); the order of rows with
\* the same created_at is the database's choice.
RECURSIVE OrderBy(_, _, _)
OrderBy(db, rows, desc) ==
    IF rows = {} THEN {<<>>}
    ELSE LET first == {k \in rows : \A j \in rows :
                          IF desc
                          THEN db.messages[j].created_at <= db.messages[k].created_at
                          ELSE db.messages[k].created_at <= db.messages[j].created_at}
         IN  UNION {{<<db.messages[k]>> \o rest :
                        rest \in OrderBy(db, rows \ {k}, desc)} : k \in first}

\* .offset(skip).limit(limit)
OffsetLimit(s, skip, limit) ==
    [n \in 1..(IF Len(s) <= skip THEN 0
               ELSE IF Len(s) - skip <= limit THEN Len(s) - skip ELSE limit)
        |-> s[skip + n]]

\* The dict of one message in response_items: reply_metadata is the first row
\* of the relationship, without its parent_id, or None.
ResponseItem(db, m) ==
    LET mds == {k \in 1..Len(db.reply_metadata) :
                    db.reply_metadata[k].message_id = m.id}
        md  == db.reply_metadata[CHOOSE k \in mds : \A j \in mds : k <= j]
    IN  [id |-> m.id, chat_id |-> m.chat_id, content |-> m.content,
         sender |-> m.sender, created_at |-> m.created_at,
         reply_metadata |->
             IF mds = {} THEN None
             ELSE [id |-> md.id, message_id |-> md.message_id,
                   start_index |-> md.start_index, end_index |-> md.end_index]]

\* get_chat_messages ordering ascending whatever reverse says.
getChatMessagesAscending(db, chat_id, skip, limit, reverse) ==
    IF _get_chat(chat_id) # ""
    THEN {[error |-> _get_chat(chat_id), type |-> "exception"]}
    ELSE {[error |-> "", type |-> "list",
           items |-> [n \in 1..Len(OffsetLimit(o, skip, limit)) |->
                         ResponseItem(db, OffsetLimit(o, skip, limit)[n])]] :
             o \in OrderBy(db, RowsOfChat(db, chat_id), FALSE)}

\* get_chat_messages: the values it can return, each a list of dicts.
get_chat_messages(db, chat_id, skip, limit, reverse) ==
    IF _get_chat(chat_id) # ""
    THEN {[error |-> _get_chat(chat_id), type |-> "exception"]}
    ELSE {[error |-> "", type |-> "list",
           items |-> [n \in 1..Len(OffsetLimit(o, skip, limit)) |->
                         ResponseItem(db, OffsetLimit(o, skip, limit)[n])]] :
             o \in OrderBy(db, RowsOfChat(db, chat_id), reverse)}

\* MessageContextRepresentation(content=..., sender=..., created_at=...): the
\* schema has the fields content and sender.
MessageContextRepresentation(content, sender) ==
    [content |-> content, sender |-> sender]

\* _get_last_chat_messages: order_by(created_at.asc()).limit(limit)
_get_last_chat_messages(db, chat_id, limit) ==
    IF _get_chat(chat_id) # ""
    THEN {[error |-> _get_chat(chat_id)]}
    ELSE {[error |-> "",
           messages |-> [n \in 1..Len(OffsetLimit(o, 0, limit)) |->
               MessageContextRepresentation(OffsetLimit(o, 0, limit)[n].content,
                                            OffsetLimit(o, 0, limit)[n].sender)]] :
             o \in OrderBy(db, RowsOfChat(db, chat_id), FALSE)}

system_prompt_send == "system_prompt_send"
system_prompt_reply == "system_prompt_reply"

LCSystemMessage(parts) == [role |-> "system", content |-> parts]
LCHumanMessage(content) == [role |-> "human", content |-> content]
LCAIMessage(content) == [role |-> "ai", content |-> content]

\* _build_chat_history_messages; the system message's content is kept as the
\* sequence of the parts that are joined; "" is no prompt, no notes.
_build_chat_history_messages(msgs, system_prompt, extra_system_notes) ==
    (IF system_prompt # "" \/ extra_system_notes # ""
     THEN <<LCSystemMessage(
               (IF system_prompt # "" THEN <<system_prompt>> ELSE <<>>)
               \o (IF extra_system_notes # "" THEN <<extra_system_notes>> ELSE <<>>))>>
     ELSE <<>>)
    \o [n \in 1..Len(msgs) |->
           IF msgs[n].sender = USER THEN LCHumanMessage(msgs[n].content)
           ELSE LCAIMessage(msgs[n].content)]

\* _get_reply_chain fetching a page for every message of the chat and two
\* more before it ends.
getReplyChainPagePerMessage(db, chat_id, msg_id, min_length) ==
    IF _get_chat(chat_id) # ""
    THEN {[error |-> _get_chat(chat_id), fetches |-> 0]}
    ELSE {[error |-> "AttributeError",
           fetches |-> Cardinality(RowsOfChat(db, chat_id)) + 2]}

\* _get_reply_chain: the values it can return or raise, with the number of
\* pages it fetched.  The first statement of the loop reads the attribute
\* messages of what get_chat_messages returned, which is a list and has no
\* such attribute: AttributeError is raised there, in the first iteration, and
\* the statements after it (lines 403-461) are not reached.
_get_reply_chain(db, chat_id, msg_id, min_length) ==
    IF _get_chat(chat_id) # ""
    THEN {[error |-> _get_chat(chat_id), fetches |-> 0]}
    ELSE {IF page.type = "list"
          THEN [error |-> "AttributeError", fetches |-> 1]
          ELSE [error |-> page.error, fetches |-> 1] :
             page \in get_chat_messages(db, chat_id, 0, PageSize, TRUE)}

\* reply_to_message_with_streaming_response up to the first wait for the
\* backend (lines 483-519): what it raises.  _create_message_reply and, after
\* it, _get_reply_chain raise for every request, so the statements after line
\* 489 are not reached.
ReplyContextOf(db, chat_id, msg_id, reply_data) ==
    LET c == _create_message_reply(chat_id, msg_id, reply_data)
    IN  IF c.error # "" THEN {[error |-> c.error]}
        ELSE IF get_message(chat_id, msg_id).error # ""
        THEN {[error |-> get_message(chat_id, msg_id).error]}
        ELSE {[error |-> chain.error] :
                 chain \in _get_reply_chain(db, chat_id, msg_id, MinLength)}

InitRead ==
    /\ chats = InitialChats
    /\ chat_fields = InitialChatFields
    /\ \E s \in Stores :
          /\ messages = s.messages
          /\ reply_metadata = s.reply_metadata
          /\ next_id = s.next_id
    /\ pc = [i \in Inv |-> "idle"]
    /\ req = [i \in Inv |-> NoReq]
    /\ message_id = [i \in Inv |-> 0]
    /\ accumulated_content = [i \in Inv |-> <<>>]
    /\ fed = [i \in Inv |-> 0]
    /\ llm_chunks = [i \in Inv |-> <<>>]
    /\ chunks = [i \in Inv |-> <<>>]
    /\ frames = [i \in Inv |-> <<>>]
    /\ stream_end = [i \in Inv |-> "none"]
    /\ outcome = [i \in Inv |-> "none"]
    /\ persist_runs = [i \in Inv |-> 0]
    /\ commits = [i \in Inv |-> 0]
    /\ probe = NoProbe
    /\ pending = [i \in Inv |-> NoPending]
    /\ observed = NotObserved

readFrame == <<chats, chat_fields, pc, req, message_id, accumulated_content, fed, llm_chunks, chunks,
               frames, stream_end, outcome, persist_runs, commits, txVars>>

\* get_chat_messages is called.
ListMessages ==
    /\ probe = NoProbe
    /\ \E chat_id \in SendChatIds, skip \in {0, PageSize},
          limit \in {PageSize, DefaultLimit}, reverse \in BOOLEAN :
         \E r \in get_chat_messages(Db, chat_id, skip, limit, reverse) :
            probe' = [fn |-> "get_chat_messages", chat_id |-> chat_id,
                      skip |-> skip, limit |-> limit, reverse |-> reverse,
                      result |-> r]
    /\ UNCHANGED <<messages, reply_metadata, next_id, readFrame>>

\* create_message_with_streaming_response up to the first wait for the backend
\* (lines 271-278): the user's message is stored, then the context is read and
\* converted to the turns of the backend.
SendContext ==
    /\ probe = NoProbe
    /\ \E chat_id \in SendChatIds, content \in UserContents, fault \in BOOLEAN :
         LET data == [content |-> content, sender |-> USER]
             c    == _create_message(chat_id, data, fault)
             call == [fn |-> "send_context", chat_id |-> chat_id,
                      message_id |-> next_id]
         IN  /\ messages' = c.messages
             /\ IF c.error # ""
                THEN /\ probe' = call @@ [result |-> [error |-> c.error]]
                     /\ UNCHANGED next_id
                ELSE /\ next_id' = next_id + 1
                     /\ \E recent \in _get_last_chat_messages(
                               [messages |-> c.messages,
                                reply_metadata |-> reply_metadata],
                               chat_id, ContextLimit) :
                           probe' = call @@ [result |-> [error |-> "",
                               messages_for_llm |-> _build_chat_history_messages(
                                   recent.messages, system_prompt_send, "")]]
    /\ UNCHANGED <<reply_metadata, readFrame>>

\* _get_reply_chain is called.
ReplyChain ==
    /\ probe = NoProbe
    /\ \E chat_id \in SendChatIds, msg_id \in {0} \cup StoredIds :
         \E r \in _get_reply_chain(Db, chat_id, msg_id, MinLength) :
            probe' = [fn |-> "_get_reply_chain", chat_id |-> chat_id,
                      message_id |-> msg_id, result |-> r]
    /\ UNCHANGED <<messages, reply_metadata, next_id, readFrame>>

\* reply_to_message_with_streaming_response up to the first wait for the
\* backend.
ReplyContext ==
    /\ probe = NoProbe
    /\ \E chat_id \in SendChatIds, msg_id \in {0} \cup StoredIds,
          content \in UserContents, range \in ReplyRanges :
         LET r == [content |-> content, sender |-> USER,
                   reply_metadata |-> [start_index |-> range[1],
                                       end_index |-> range[2],
                                       parent_id |-> msg_id]]
         IN  \E result \in ReplyContextOf(Db, chat_id, msg_id, r) :
                probe' = [fn |-> "reply_context", chat_id |-> chat_id,
                          message_id |-> msg_id, reply_data |-> r,
                          result |-> result]
    /\ UNCHANGED <<messages, reply_metadata, next_id, readFrame>>

\* get_chat_messages(chat.id, skip=0, limit=5, ...) of
\* test_get_chat_messages_order_with_pagination
TestLimit == 5
\* Page sizes of a client that reads the listing page by page.
PageLimits == {TestLimit, PageSize}

\* The pages such a client gets: get_chat_messages(skip=0, limit=L), (skip=L,
\* limit=L), ... as long as rows remain; each page is one execution of the
\* query, with the order the database gives that execution.
RECURSIVE PagesFrom(_, _, _, _, _)
PagesFrom(db, chat_id, skip, limit, reverse) ==
    IF skip >= Cardinality(RowsOfChat(db, chat_id)) THEN {<<>>}
    ELSE UNION {{<<page.items>> \o rest :
                    rest \in PagesFrom(db, chat_id, skip + limit, limit, reverse)} :
                page \in get_chat_messages(db, chat_id, skip, limit, reverse)}

\* The listing of an unchanged chat is read page by page.
ListPages ==
    /\ probe = NoProbe
    /\ \E chat_id \in InitialChats, limit \in PageLimits, reverse \in BOOLEAN :
         \E pages \in PagesFrom(Db, chat_id, 0, limit, reverse) :
            probe' = [fn |-> "pages", chat_id |-> chat_id, limit |-> limit,
                      reverse |-> reverse, result |-> pages]
    /\ UNCHANGED <<messages, reply_metadata, next_id, readFrame>>

\* The same page of the listing of an unchanged chat is read twice.
ListTwice ==
    /\ probe = NoProbe
    /\ \E chat_id \in InitialChats, reverse \in BOOLEAN :
         \E first \in get_chat_messages(Db, chat_id, 0, TestLimit, reverse),
            second \in get_chat_messages(Db, chat_id, 0, TestLimit, reverse) :
            probe' = [fn |-> "twice", chat_id |-> chat_id, reverse |-> reverse,
                      result |-> first, again |-> second]
    /\ UNCHANGED <<messages, reply_metadata, next_id, readFrame>>

\* delete_chat leaving the reply metadata of the chat's messages in place.
deleteChatKeepsMetadata(db, chat_id) ==
    IF _get_chat(chat_id) # ""
    THEN [error |-> _get_chat(chat_id), chats |-> chats,
          messages |-> db.messages, reply_metadata |-> db.reply_metadata]
    ELSE [error |-> "", chats |-> chats \ {chat_id},
          messages |-> SelectSeq(db.messages, LAMBDA m : m.chat_id # chat_id),
          reply_metadata |-> db.reply_metadata]

\* ChatService.delete_chat: get_chat raises ChatNotFoundError; db.delete(chat)
\* cascades to the chat's messages (Chat.messages, cascade="all,
\* delete-orphan") and from each message to its reply metadata
\* (Message.reply_metadata, the same cascade); then the commit.
delete_chat(db, chat_id) ==
    IF _get_chat(chat_id) # ""
    THEN [error |-> _get_chat(chat_id), chats |-> chats,
          messages |-> db.messages, reply_metadata |-> db.reply_metadata]
    ELSE [error |-> "", chats |-> chats \ {chat_id},
          messages |-> SelectSeq(db.messages, LAMBDA m : m.chat_id # chat_id),
          reply_metadata |->
              SelectSeq(db.reply_metadata, LAMBDA md :
                  \A k \in RowsOfChat(db, chat_id) :
                      db.messages[k].id # md.message_id)]

\* DELETE /chats/{chat_id}; the tables before the call are kept beside the
\* result.
DeleteChat ==
    /\ probe = NoProbe
    /\ \E chat_id \in ChatIds :
         LET d == delete_chat(Db, chat_id)
         IN  /\ chats' = d.chats
             /\ chat_fields' = [c \in d.chats |-> chat_fields[c]]
             /\ messages' = d.messages
             /\ reply_metadata' = d.reply_metadata
             /\ probe' = [fn |-> "delete_chat", chat_id |-> chat_id,
                          before |-> Db, result |-> [error |-> d.error]]
    /\ UNCHANGED <<next_id, pc, req, message_id, accumulated_content, fed, llm_chunks,
                   chunks, frames, stream_end, outcome, persist_runs, commits,
                   txVars>>

\* GET /chats/{chat_id}/messages/{message_id}
GetMessage ==
    /\ probe = NoProbe
    /\ \E chat_id \in ChatIds, msg_id \in {0} \cup StoredIds :
         probe' = [fn |-> "get_message", chat_id |-> chat_id,
                   message_id |-> msg_id,
                   result |-> get_message(chat_id, msg_id)]
    /\ UNCHANGED <<messages, reply_metadata, next_id, readFrame>>

NextRead ==
    \/ GetMessage
    \/ ListMessages
    \/ SendContext
    \/ ReplyChain
    \/ ReplyContext
    \/ ListPages
    \/ ListTwice
    \/ DeleteChat

SpecRead == InitRead /\ [][NextRead]_vars

\* ------------------------------------ rows of the tables under every operation
MaxUpdates == 1
NumStreams == 1

\* ChatUpdate: title is Optional[str]; <<>> is None, <<t>> the title t.
ChatUpdates == {[title |-> o] : o \in {<<>>} \cup {<<t>> : t \in Titles}}

\* ChatService.update_chat: get_chat raises ChatNotFoundError; the title is
\* assigned when one is given; the commit writes an UPDATE, and with it the
\* onupdate value of updated_at, only when the assignment changed the row.
update_chat(chat_id, chat_data) ==
    IF _get_chat(chat_id) # ""
    THEN [error |-> _get_chat(chat_id), chat_fields |-> chat_fields]
    ELSE IF chat_data.title # <<>> /\ chat_data.title[1] # chat_fields[chat_id].title
    THEN [error |-> "",
          chat_fields |-> [chat_fields EXCEPT ![chat_id] =
              [@ EXCEPT !.title = chat_data.title[1],
                        !.updated_at = @ + 1]]]
    ELSE [error |-> "", chat_fields |-> chat_fields]

\* The tables as the operations find them: a message of chat c1 that quotes a
\* message of chat c2, written by earlier requests.
RowStores == {Store(1, FALSE, TRUE, "orphan")}

InitRows ==
    /\ chats = InitialChats
    /\ chat_fields = InitialChatFields
    /\ \E s \in RowStores :
          /\ messages = s.messages
          /\ reply_metadata = s.reply_metadata
          /\ next_id = s.next_id
    /\ pc = [i \in Inv |-> "idle"]
    /\ req = [i \in Inv |-> NoReq]
    /\ message_id = [i \in Inv |-> 0]
    /\ accumulated_content = [i \in Inv |-> <<>>]
    /\ fed = [i \in Inv |-> 0]
    /\ llm_chunks = [i \in Inv |-> <<>>]
    /\ chunks = [i \in Inv |-> <<>>]
    /\ frames = [i \in Inv |-> <<>>]
    /\ stream_end = [i \in Inv |-> "none"]
    /\ outcome = [i \in Inv |-> "none"]
    /\ persist_runs = [i \in Inv |-> 0]
    /\ commits = [i \in Inv |-> 0]
    /\ probe = NoProbe
    /\ pending = [i \in Inv |-> NoPending]
    /\ observed = NotObserved

\* PUT /chats/{chat_id}
UpdateChat ==
    /\ \E chat_id \in SendChatIds, chat_data \in ChatUpdates :
         LET u == update_chat(chat_id, chat_data)
         IN  /\ \A c \in chats : u.chat_fields[c].updated_at <= MaxUpdates
             /\ chat_fields' = u.chat_fields
    /\ UNCHANGED <<chats, messages, reply_metadata, next_id, pc, req,
                   message_id, accumulated_content, fed, llm_chunks, chunks, frames,
                   stream_end, outcome, persist_runs, commits, probe, txVars>>

\* The streaming endpoints, for NumStreams requests, beside the chat endpoints
\* that write.
NextRows ==
    \/ \E i \in 1..NumStreams :
          \/ SendStart(i)
          \/ ReplyStart(i)
          \/ Fragment(i)
          \/ Exhausted(i)
          \/ BackendFail(i)
          \/ Disconnect(i)
    \/ UpdateChat
    \/ DeleteChat

SpecRows == InitRows /\ [][NextRows]_vars

\* ===================================================================== claims
\* The invocation reached the streaming state (its message id was allocated).
Reached(i) == message_id[i] # 0
Ended(i) == Reached(i) /\ pc[i] = "done"

\* The rows of table messages stored under the invocation's pre-allocated id.
AIRowsOf(i) == {k \in 1..Len(messages) : messages[k].id = message_id[i]}

\* The non-final chunks the engine has yielded, and their contents in a row.
NonFinal(i) == SelectSeq(chunks[i], LAMBDA c : ~c.is_final)
Finals(i) == SelectSeq(chunks[i], LAMBDA c : c.is_final)

RECURSIVE Concat(_)
Concat(cs) == IF cs = <<>> THEN <<>> ELSE Head(cs).content \o Concat(Tail(cs))

Emitted(i) == Concat(NonFinal(i))

\* strip as a statement about its result: t is s without the blanks at its ends.
IsTrimOf(t, s) ==
    \/ /\ t = <<>>
       /\ \A k \in 1..Len(s) : s[k] = " "
    \/ /\ t # <<>>
       /\ t[1] # " " /\ t[Len(t)] # " "
       /\ \E a \in 0..Len(s) :
            /\ a + Len(t) <= Len(s)
            /\ t = SubSeq(s, a + 1, a + Len(t))
            /\ \A k \in 1..Len(s) : (k <= a \/ k > a + Len(t)) => s[k] = " "

\* One row, holding the trimmed text the invocation emitted.
OneRowWithEmitted(i) ==
    /\ Cardinality(AIRowsOf(i)) = 1
    /\ \A k \in AIRowsOf(i) : IsTrimOf(messages[k].content, Emitted(i))

\* C1: however the stream of an invocation ends (exhausted, backend failure,
\* consumer close), the finally block has run at most once, at most one commit
\* was attempted, at most one row is stored under the invocation's id, and every
\* AI row of the table is the row of one invocation that ran its finally block.
C1_AtMostOnePersisted ==
    /\ \A i \in Inv :
         /\ persist_runs[i] <= 1
         /\ commits[i] <= 1
         /\ Cardinality(AIRowsOf(i)) <= 1
    /\ \A k \in 1..Len(messages) :
         messages[k].sender = AI =>
            /\ \E i \in Inv : Ended(i) /\ persist_runs[i] = 1 /\ k \in AIRowsOf(i)
            /\ \A j \in 1..Len(messages) : messages[j].id = messages[k].id => j = k

C1_Witness ==
    \E i \in Inv :
        /\ Ended(i) /\ stream_end[i] = "closed"
        /\ Cardinality(AIRowsOf(i)) = 1
        /\ \E j \in Inv : j # i /\ Ended(j) /\ stream_end[j] = "failed"
                          /\ Cardinality(AIRowsOf(j)) = 1

\* C2 as claimed: after a backend failure that follows k >= 1 emitted
\* fragments, the finally block has run and one AI Message holding the trimmed
\* concatenation of the fragments is stored.  (Read for a commit that does not
\* fail: the failing commit is the case of C8.)
C2_Original ==
    \A i \in Inv :
        (Ended(i) /\ stream_end[i] = "failed" /\ Len(NonFinal(i)) >= 1
         /\ outcome[i] # "DatabaseError") =>
            /\ persist_runs[i] = 1
            /\ OneRowWithEmitted(i)

\* C2 amended: after a backend failure that follows k >= 1 emitted fragments,
\* the finally block has run once; when the trimmed concatenation of the
\* fragments is not empty and the commit did not fail, one AI Message holding it
\* is stored, and otherwise no AI Message of the invocation is stored.
C2_PartialOutputKept ==
    \A i \in Inv :
        (Ended(i) /\ stream_end[i] = "failed" /\ Len(NonFinal(i)) >= 1) =>
            /\ persist_runs[i] = 1
            /\ IF (\E k \in 1..Len(Emitted(i)) : Emitted(i)[k] # " ")
                  /\ outcome[i] # "DatabaseError"
               THEN OneRowWithEmitted(i)
               ELSE AIRowsOf(i) = {}

C2_Witness ==
    \E i \in Inv :
        /\ Ended(i) /\ stream_end[i] = "failed" /\ Len(NonFinal(i)) >= 1
        /\ outcome[i] = "BackendError"
        /\ Emitted(i) = <<"a", " ">>
        /\ \E k \in AIRowsOf(i) : messages[k].content = <<"a">>

\* C3 as claimed: when the consumer closes the stream after k >= 1 non-final
\* chunks, the finally block has run once and one AI Message holding the trimmed
\* concatenation of the k fragments is committed.  (Read for a commit that
\* does not fail: the failing commit is the case of C8.)
C3_Original ==
    \A i \in Inv :
        (Ended(i) /\ stream_end[i] = "closed" /\ Len(NonFinal(i)) >= 1
         /\ outcome[i] # "DatabaseError") =>
            /\ persist_runs[i] = 1
            /\ commits[i] = 1
            /\ OneRowWithEmitted(i)

\* C3 amended: when the consumer closes the stream after k >= 1 non-final
\* chunks, the finally block has run once; when the trimmed concatenation of the
\* k fragments is not empty, one commit is attempted and, unless it fails, one
\* AI Message holding that text is stored; when it is empty, nothing is
\* committed and no AI Message is stored.
C3_CloseStillPersists ==
    \A i \in Inv :
        (Ended(i) /\ stream_end[i] = "closed" /\ Len(NonFinal(i)) >= 1) =>
            /\ persist_runs[i] = 1
            /\ Finals(i) = <<>>
            /\ IF \E k \in 1..Len(Emitted(i)) : Emitted(i)[k] # " "
               THEN /\ commits[i] = 1
                    /\ IF outcome[i] # "DatabaseError"
                       THEN OneRowWithEmitted(i)
                       ELSE AIRowsOf(i) = {}
               ELSE /\ commits[i] = 0
                    /\ AIRowsOf(i) = {}

C3_Witness ==
    \E i \in Inv :
        /\ Ended(i) /\ stream_end[i] = "closed" /\ Len(NonFinal(i)) = 2
        /\ outcome[i] = "GeneratorExit"
        /\ Emitted(i) = <<" ", "a">>
        /\ \E k \in AIRowsOf(i) : messages[k].content = <<"a">>

\* An SSE frame that ends the stream, and the kinds of frame.
IsFinalFrame(f) == f.data.is_final
IsErrorFrame(f) == "error" \in DOMAIN f.data

\* C4: an SSE stream the consumer has read to its end (the generator ended and
\* the consumer did not close it) has exactly one frame with is_final true, and
\* it is the last frame: the terminator chunk when the engine completed, an
\* error frame when it failed before or during streaming; and no stream, at any
\* moment, has a frame after a frame with is_final true.
C4_OneFinalFrameLast ==
    \A i \in Inv :
        /\ \A k \in 1..(Len(frames[i]) - 1) :
              ~IsFinalFrame(frames[i][k]) /\ ~IsErrorFrame(frames[i][k])
        /\ (pc[i] = "done" /\ stream_end[i] # "closed") =>
              /\ frames[i] # <<>>
              /\ IsFinalFrame(frames[i][Len(frames[i])])
              /\ IsErrorFrame(frames[i][Len(frames[i])]) <=> outcome[i] # "completed"
              /\ outcome[i] = "completed" =>
                    frames[i][Len(frames[i])].data =
                        StreamChunk(<<>>, TRUE, message_id[i])

C4_Witness ==
    \E i \in Inv :
        /\ pc[i] = "done" /\ stream_end[i] = "failed"
        /\ Len(frames[i]) = 2
        /\ ~IsErrorFrame(frames[i][1])
        /\ IsErrorFrame(frames[i][2]) /\ IsFinalFrame(frames[i][2])
        /\ \E j \in Inv : pc[j] = "done" /\ outcome[j] = "completed"

\* C5 as claimed: every invocation that reached the streaming state has, when it
\* has ended, yielded the terminator chunk {content "", is_final true,
\* message_id} as its last output, once, also when the stream was interrupted.
C5_Original ==
    \A i \in Inv :
        Ended(i) =>
            /\ Finals(i) = <<StreamChunk(<<>>, TRUE, message_id[i])>>
            /\ chunks[i][Len(chunks[i])].is_final

\* C5 amended: an invocation that reached the streaming state yields the
\* terminator chunk {content "", is_final true, message_id = the pre-allocated
\* id} exactly when its stream completed (the backend's sequence was exhausted)
\* and the persistence step raised nothing, also when persistence wrote nothing;
\* it is then the last output, yielded once and after the persistence step.  An
\* invocation whose stream was interrupted, or whose commit failed, yields no
\* terminator chunk.
C5_TerminatorOnCompletion ==
    \A i \in Inv :
        /\ Len(Finals(i)) <= 1
        /\ \A k \in 1..(Len(chunks[i]) - 1) : ~chunks[i][k].is_final
        /\ Finals(i) # <<>> =>
              /\ Finals(i) = <<StreamChunk(<<>>, TRUE, message_id[i])>>
              /\ Ended(i) /\ persist_runs[i] = 1
        /\ Ended(i) =>
              (Finals(i) # <<>> <=>
                  (stream_end[i] = "exhausted" /\ outcome[i] # "DatabaseError"))

C5_Witness ==
    \E i \in Inv :
        /\ Ended(i) /\ stream_end[i] = "exhausted"
        /\ AIRowsOf(i) = {}
        /\ Len(chunks[i]) = 2
        /\ chunks[i][2] = StreamChunk(<<>>, TRUE, message_id[i])
        /\ \E j \in Inv : Ended(j) /\ stream_end[j] = "failed" /\ Finals(j) = <<>>

\* C6: when the trimmed accumulated text is not empty (and the commit did not
\* fail), the invocation has stored one AI Message: its sender is AI, its chat is
\* the invocation's chat, its content is the trimmed concatenation, in emission
\* order, of the contents of the non-final chunks, and its id is the message_id
\* of every chunk of the invocation, non-final and final.
C6_PersistedMessage ==
    \A i \in Inv :
        /\ \A k \in 1..Len(chunks[i]) : chunks[i][k].message_id = message_id[i]
        /\ (Ended(i) /\ outcome[i] # "DatabaseError"
            /\ \E k \in 1..Len(accumulated_content[i]) :
                    accumulated_content[i][k] # " ") =>
              /\ OneRowWithEmitted(i)
              /\ \A k \in AIRowsOf(i) :
                    /\ messages[k].sender = AI
                    /\ messages[k].chat_id = req[i].chat_id
                    /\ messages[k].content # <<>>
                    /\ \A n \in 1..Len(chunks[i]) :
                          chunks[i][n].message_id = messages[k].id

C6_Witness ==
    \E i \in Inv :
        /\ Ended(i) /\ outcome[i] = "completed"
        /\ Len(chunks[i]) = 3
        /\ Emitted(i) = <<"a", " ">>
        /\ \E k \in AIRowsOf(i) : messages[k].content = <<"a">>

\* C7: when the backend produced no fragment, or only fragments whose
\* concatenation is empty after trimming, the invocation commits nothing and
\* no AI Message of it is stored; when the backend's sequence was exhausted the
\* consumer has received the terminator chunk with is_final true as the last
\* frame; and the chat holds no AI Message that the invocation added.
C7_NothingPersistedWhenEmpty ==
    \A i \in Inv :
        (Ended(i) /\ \A k \in 1..Len(Emitted(i)) : Emitted(i)[k] = " ") =>
            /\ AIRowsOf(i) = {}
            /\ commits[i] = 0
            /\ outcome[i] # "DatabaseError"
            /\ stream_end[i] = "exhausted" =>
                  /\ outcome[i] = "completed"
                  /\ frames[i][Len(frames[i])] =
                        SseData(StreamChunk(<<>>, TRUE, message_id[i]))
            /\ (\A j \in Inv : j # i => ~Reached(j)) =>
                  \A k \in 1..Len(messages) : messages[k].sender # AI

C7_Witness ==
    \E i \in Inv :
        /\ Ended(i) /\ stream_end[i] = "exhausted"
        /\ Emitted(i) = <<" ">>
        /\ fed[i] = 2
        /\ Len(frames[i]) = 2
        /\ \A j \in Inv : j # i => ~Reached(j)

\* C8: when the commit of the AI Message fails, no row of the invocation is
\* stored, the commit was attempted once, the invocation ends with
\* DatabaseError, which a consumer that did not close the stream receives as
\* the error frame with is_final true, the terminator chunk is not yielded, and
\* the chunks yielded before are still the frames before the error frame.
C8_CommitFailure ==
    \A i \in Inv :
        (Ended(i) /\ outcome[i] = "DatabaseError") =>
            /\ AIRowsOf(i) = {}
            /\ commits[i] = 1
            /\ persist_runs[i] = 1
            /\ Finals(i) = <<>>
            /\ Len(chunks[i]) >= 1
            /\ stream_end[i] # "closed" =>
                  /\ Len(frames[i]) = Len(chunks[i]) + 1
                  /\ \A k \in 1..Len(chunks[i]) : frames[i][k] = SseData(chunks[i][k])
                  /\ frames[i][Len(frames[i])] = SseError("DatabaseError")
            /\ stream_end[i] = "closed" =>
                  /\ Len(frames[i]) = Len(chunks[i])
                  /\ \A k \in 1..Len(chunks[i]) : frames[i][k] = SseData(chunks[i][k])

C8_Witness ==
    \E i \in Inv :
        /\ Ended(i) /\ outcome[i] = "DatabaseError"
        /\ stream_end[i] = "exhausted"
        /\ Len(chunks[i]) = 2

\* C9: validate(content) of a range (start_index, end_index) passes exactly when
\* 0 <= start_index < end_index <= len(content) and raises
\* InvalidReplyRangeError in every other case; nothing else changes.
C9_ValidateExactly ==
    (probe.fn = "validate" /\ probe.result # "pending") =>
        /\ probe.result \in {"", "InvalidReplyRangeError"}
        /\ probe.result = "" <=>
              /\ 0 <= probe.start_index
              /\ probe.start_index < probe.end_index
              /\ probe.end_index <= Len(probe.content)
        /\ messages = <<>> /\ reply_metadata = <<>>

C9_Witness ==
    /\ probe.fn = "validate"
    /\ probe.result = "InvalidReplyRangeError"
    /\ probe.start_index = 1 /\ probe.end_index = 3 /\ Len(probe.content) = 2

\* The message of a chat with an id, as a set (empty when there is none).
MessagesWith(chat_id, id) ==
    {messages[k] : k \in {n \in 1..Len(messages) :
        messages[n].id = id /\ messages[n].chat_id = chat_id}}

\* C10: whenever a reply request fails because its chat does not exist, its
\* target message does not exist in that chat, or its range is invalid against
\* the target message's content, it fails with ChatNotFoundError,
\* MessageNotFoundError or InvalidReplyRangeError respectively, and the tables
\* messages and message_reply_metadata are what they were before the call.
C10_FailedReplyWritesNothing ==
    [][\A i \in Inv :
          (pc[i] = "idle" /\ pc'[i] = "done" /\ req'[i].kind = "reply") =>
             LET r  == req'[i]
                 md == r.reply_metadata
                 target == MessagesWith(r.chat_id, r.message_id)
             IN  /\ r.chat_id \notin chats => outcome'[i] = "ChatNotFoundError"
                 /\ (r.chat_id \in chats /\ target = {}) =>
                        outcome'[i] = "MessageNotFoundError"
                 /\ (r.chat_id \in chats /\ target # {}
                     /\ \E m \in target :
                           ~(0 <= md.start_index /\ md.start_index < md.end_index
                             /\ md.end_index <= Len(m.content))) =>
                        outcome'[i] = "InvalidReplyRangeError"
                 /\ outcome'[i] \in {"ChatNotFoundError", "MessageNotFoundError",
                                     "InvalidReplyRangeError"} =>
                        /\ messages' = messages
                        /\ reply_metadata' = reply_metadata
                        /\ r.chat_id \notin chats \/ target = {}
                           \/ \E m \in target :
                                ~(md.start_index < md.end_index
                                  /\ md.end_index <= Len(m.content))
      ]_vars

C10_Witness ==
    \E i \in Inv :
        /\ pc[i] = "done" /\ req[i].kind = "reply"
        /\ outcome[i] = "InvalidReplyRangeError"
        /\ req[i].reply_metadata.start_index < req[i].reply_metadata.end_index
        /\ \E m \in MessagesWith(req[i].chat_id, req[i].message_id) :
              req[i].reply_metadata.end_index > Len(m.content)
        /\ messages # <<>>

\* The request of session i names an existing chat, a message of that chat and
\* a range that is valid against the content of that message.
ValidReply(i) ==
    /\ req[i].kind = "reply"
    /\ req[i].chat_id \in chats
    /\ \E m \in MessagesWith(req[i].chat_id, req[i].message_id) :
          /\ 0 <= req[i].reply_metadata.start_index
          /\ req[i].reply_metadata.start_index < req[i].reply_metadata.end_index
          /\ req[i].reply_metadata.end_index <= Len(m.content)

\* The rows of a table of messages with an id, of a table of reply metadata
\* with a message_id.
RowsWithId(table, id) == {k \in 1..Len(table) : table[k].id = id}
MetadataOf(table, id) == {k \in 1..Len(table) : table[k].message_id = id}

\* C11: when the chat exists, the target message exists in that chat and the
\* range is valid against the target's content, _create_message_reply succeeds,
\* and afterwards there is exactly one new Message and exactly one ReplyMetadata
\* row of it, holding the given start and end.
C11_ValidReplySucceeds ==
    \A i \in Inv :
        (pc[i] = "done" /\ ValidReply(i)) =>
            /\ outcome[i] = "returned"
            /\ Cardinality(RowsWithId(messages, message_id[i])) = 1
            /\ Cardinality(MetadataOf(reply_metadata, message_id[i])) = 1
            /\ \A k \in MetadataOf(reply_metadata, message_id[i]) :
                  /\ reply_metadata[k].start_index = req[i].reply_metadata.start_index
                  /\ reply_metadata[k].end_index = req[i].reply_metadata.end_index

\* C12: a Message created by a reply operation is visible exactly when its
\* ReplyMetadata is visible, in the committed tables and in what another
\* session has read, also while the reply's transaction is open and after it
\* failed between the flush and the commit.
C12_ReplyVisibleWithMetadata ==
    \A i \in Inv :
        message_id[i] # 0 =>
            /\ RowsWithId(messages, message_id[i]) # {}
                   <=> MetadataOf(reply_metadata, message_id[i]) # {}
            /\ observed.read =>
                  (RowsWithId(observed.messages, message_id[i]) # {}
                       <=> MetadataOf(observed.reply_metadata, message_id[i]) # {})

\* A reply's transaction failed after its flush, and another session read the
\* tables while that transaction was open.
C12_Witness ==
    \E i \in Inv :
        /\ pc[i] = "done"
        /\ message_id[i] # 0
        /\ outcome[i] = "DatabaseError"
        /\ observed.read
        /\ i \in observed.during

\* The turns of a context without its system message.
ConversationalTurns(turns) == SelectSeq(turns, LAMBDA t : t.role # "system")

\* The turn of a stored message with its full content.
TurnOf(m) ==
    IF m.sender = USER THEN LCHumanMessage(m.content) ELSE LCAIMessage(m.content)

\* The last n elements of a sequence.
LastOf(s, n) == SubSeq(s, Len(s) - n + 1, Len(s))

Reverse(s) == [n \in 1..Len(s) |-> s[Len(s) - n + 1]]

\* The messages of the chat were created one after another: each was stored
\* at a later instant than the one before it.
CreatedOneAfterAnother(chat_id) ==
    \A j, k \in RowsOfChat(Db, chat_id) :
        j < k => messages[j].created_at < messages[k].created_at

\* The messages of the chat in the order of their creation.
CreationOrder(chat_id) == SelectSeq(messages, LAMBDA m : m.chat_id = chat_id)

\* C13: in linear mode the conversational turns handed to the backend are the
\* most recent min(10, N) messages of the chat, N counted after the user's
\* message was stored, in ascending chronological order, and the last of them
\* is the user message that was just stored.  Stated for a chat whose messages
\* were created one after another, where "most recent" names one sequence.
C13_LinearContextMostRecent ==
    (/\ probe.fn = "send_context"
     /\ probe.result.error = ""
     /\ CreatedOneAfterAnother(probe.chat_id)) =>
        LET rows  == RowsOfChat(Db, probe.chat_id)
            n     == IF Cardinality(rows) < ContextLimit
                     THEN Cardinality(rows) ELSE ContextLimit
            turns == ConversationalTurns(probe.result.messages_for_llm)
        IN  /\ \E o \in OrderBy(Db, rows, FALSE) :
                  turns = [k \in 1..n |-> TurnOf(LastOf(o, n)[k])]
            /\ turns # <<>>
            /\ \E m \in MessagesWith(probe.chat_id, probe.message_id) :
                  turns[Len(turns)] = TurnOf(m)

\* The reply metadata row of a message, as a set (empty when it has none).
ReplyMetadataOf(id) ==
    {reply_metadata[k] : k \in MetadataOf(reply_metadata, id)}

\* The ids of a message of the chat and of its ancestors, from the message up
\* its parent references, as far as they are messages of the chat and were
\* not met before (parent references can form a cycle).
RECURSIVE AncestryFrom(_, _, _)
AncestryFrom(chat_id, id, seen) ==
    IF MessagesWith(chat_id, id) = {} \/ id \in seen THEN <<>>
    ELSE IF ReplyMetadataOf(id) = {} THEN <<id>>
    ELSE <<id>> \o AncestryFrom(chat_id,
                       (CHOOSE md \in ReplyMetadataOf(id) : TRUE).parent_id,
                       seen \cup {id})

Ancestry(chat_id, id) == AncestryFrom(chat_id, id, {})

\* _get_reply_chain was called for a message of an existing chat.
ChainCalled ==
    /\ probe.fn = "_get_reply_chain"
    /\ probe.chat_id \in chats
    /\ MessagesWith(probe.chat_id, probe.message_id) # {}

\* C14: the list _get_reply_chain returns holds, as its newest turns, the
\* target message and every ancestor reachable through parent references, in
\* parent order, wherever those messages fall in the pages of 10.
C14_ChainHoldsAncestors ==
    ChainCalled =>
        LET ids == Ancestry(probe.chat_id, probe.message_id)
        IN  /\ probe.result.error = ""
            /\ Len(probe.result.chain) >= Len(ids)
            /\ \A j \in 1..Len(ids) :
                  \E m \in MessagesWith(probe.chat_id, ids[j]) :
                     probe.result.chain[Len(probe.result.chain) - j + 1].sender
                         = m.sender

\* The walk from the target ends at a message whose parent id names no message
\* of the chat.
EndsAtOrphan ==
    LET ids == Ancestry(probe.chat_id, probe.message_id)
    IN  /\ ids # <<>>
        /\ \E md \in ReplyMetadataOf(ids[Len(ids)]) :
              MessagesWith(probe.chat_id, md.parent_id) = {}

C16_QuotedRangeOfParent ==
    ChainCalled =>
        LET ids == Ancestry(probe.chat_id, probe.message_id)
        IN  /\ probe.result.error = ""
            /\ \A j \in 1..Len(ids) :
                  \A m \in MessagesWith(probe.chat_id, ids[j]) :
                     LET turn == probe.result.chain[Len(probe.result.chain) - j + 1]
                     IN  /\ ReplyMetadataOf(m.id) = {} => turn.content = m.content
                         /\ \A md \in ReplyMetadataOf(m.id) :
                               \A parent \in MessagesWith(probe.chat_id, md.parent_id) :
                                  turn.content = SubSeq(parent.content,
                                                        md.start_index + 1,
                                                        md.end_index)

\* C17: when the chat holds at least 10 messages, the context _get_reply_chain
\* returns holds at least 10 turns, however short the reply chain is.
C17_AtLeastTenTurns ==
    (ChainCalled /\ Cardinality(RowsOfChat(Db, probe.chat_id)) >= MinLength) =>
        /\ probe.result.error = ""
        /\ Len(probe.result.chain) >= MinLength

\* C18: the list _get_reply_chain returns is in ascending chronological order:
\* its turns are turns of messages of the chat whose created_at never decreases
\* along the list.
C18_ChainAscending ==
    ChainCalled =>
        /\ probe.result.error = ""
        /\ \E p \in [1..Len(probe.result.chain) -> RowsOfChat(Db, probe.chat_id)] :
              /\ \A j \in 1..Len(probe.result.chain) :
                    probe.result.chain[j].sender = messages[p[j]].sender
              /\ \A j \in 1..(Len(probe.result.chain) - 1) :
                    messages[p[j]].created_at <= messages[p[j + 1]].created_at

\* C19: in the reply stream the last conversational turn handed to the backend
\* is the message replied to, with its full content and its sender, after all
\* the turns of the chain.
C19_OriginalIsLastTurn ==
    (/\ probe.fn = "reply_context"
     /\ probe.chat_id \in chats
     /\ \E m \in MessagesWith(probe.chat_id, probe.message_id) :
           /\ 0 <= probe.reply_data.reply_metadata.start_index
           /\ probe.reply_data.reply_metadata.start_index
                  < probe.reply_data.reply_metadata.end_index
           /\ probe.reply_data.reply_metadata.end_index <= Len(m.content)) =>
        /\ probe.result.error = ""
        /\ \E m \in MessagesWith(probe.chat_id, probe.message_id) :
              LET turns == ConversationalTurns(probe.result.messages_for_llm)
              IN  turns # <<>> /\ turns[Len(turns)] = TurnOf(m)

\* C20: after N messages were created one after another in a chat,
\* get_chat_messages with reverse=False returns exactly those N messages in the
\* order of their creation, with created_at never decreasing, and with
\* reverse=True it returns them in exactly the reverse of that order.
C20_ListingInCreationOrder ==
    (/\ probe.fn = "get_chat_messages"
     /\ probe.chat_id \in chats
     /\ probe.skip = 0 /\ probe.limit = DefaultLimit
     /\ CreatedOneAfterAnother(probe.chat_id)) =>
        LET created  == CreationOrder(probe.chat_id)
            expected == IF probe.reverse THEN Reverse(created) ELSE created
            items    == probe.result.items
        IN  /\ probe.result.error = ""
            /\ Len(items) = Len(created)
            /\ \A n \in 1..Len(items) :
                  /\ items[n].id = expected[n].id
                  /\ items[n].content = expected[n].content
                  /\ items[n].sender = expected[n].sender
            /\ ~probe.reverse =>
                  \A n \in 1..(Len(items) - 1) :
                     items[n].created_at <= items[n + 1].created_at

\* Five messages created one after another in a chat, beside a message of
\* another chat, are listed newest first.
C20_Witness ==
    /\ probe.fn = "get_chat_messages"
    /\ probe.chat_id = "c1"
    /\ probe.skip = 0 /\ probe.limit = DefaultLimit
    /\ probe.reverse
    /\ CreatedOneAfterAnother("c1")
    /\ Len(messages) = 6
    /\ probe.result.error = ""
    /\ Len(probe.result.items) = 5
    /\ probe.result.items[1].id = 5
    /\ probe.result.items[5].id = 1

\* The pages of a paged read, one after another.
RECURSIVE JoinPages(_)
JoinPages(pages) ==
    IF pages = <<>> THEN <<>> ELSE Head(pages) \o JoinPages(Tail(pages))

\* C21: for an unchanged chat and a page size L, the pages
\* get_chat_messages(skip=0, limit=L), (skip=L, limit=L), ... one after another
\* are the full ordered listing: every message of the chat is in exactly one
\* page, ascending and likewise descending.
C21_PagesPartitionListing ==
    probe.fn = "pages" =>
        LET all == JoinPages(probe.result)
            n   == Cardinality(RowsOfChat(Db, probe.chat_id))
        IN  /\ Len(all) = n
            /\ \A k \in RowsOfChat(Db, probe.chat_id) :
                  Cardinality({j \in 1..Len(all) : all[j].id = messages[k].id}) = 1
            /\ \E full \in get_chat_messages(Db, probe.chat_id, 0, n, probe.reverse) :
                  full.items = all

\* C22: a chronological read is deterministic under timestamp collisions: two
\* executions of the same read of an unchanged chat return the messages in the
\* same order.
C22_ReadsDeterministic ==
    probe.fn = "twice" => probe.result = probe.again

\* C23: after delete_chat(c) succeeded no message of chat c and no reply
\* metadata of such a message exists, get_message raises MessageNotFoundError
\* for every message id c had, the chat is not found, and the messages of
\* other chats and their reply metadata are what they were.
C23_DeleteChatCascades ==
    (probe.fn = "delete_chat" /\ probe.result.error = "") =>
        LET c      == probe.chat_id
            before == probe.before
        IN  /\ RowsOfChat(Db, c) = {}
            /\ \A k \in RowsOfChat(before, c) :
                  /\ MetadataOf(reply_metadata, before.messages[k].id) = {}
                  /\ get_message(c, before.messages[k].id).error
                         = "MessageNotFoundError"
            /\ _get_chat(c) = "ChatNotFoundError"
            /\ messages = SelectSeq(before.messages, LAMBDA m : m.chat_id # c)
            /\ \A j \in 1..Len(before.reply_metadata) :
                  (\E k \in 1..Len(messages) :
                       messages[k].id = before.reply_metadata[j].message_id)
                  => \E n \in 1..Len(reply_metadata) :
                        reply_metadata[n] = before.reply_metadata[j]

\* A chat with messages and reply metadata was deleted beside a message of
\* another chat, which is all that is left.
C23_Witness ==
    /\ probe.fn = "delete_chat"
    /\ probe.chat_id = "c1"
    /\ probe.result.error = ""
    /\ Len(probe.before.messages) >= 4
    /\ Len(probe.before.reply_metadata) = 2
    /\ Len(messages) = 1
    /\ messages[1].chat_id = "c2"
    /\ reply_metadata = <<>>
    /\ chats = {"c2"}

\* C24: extract_reply_text(content, s, e) is content[s:e] for every range with
\* 0 <= s < e <= len(content) and the empty string for every other range; so
\* it is non-empty exactly for the ranges that validate accepts.
C24_ExtractReplyText ==
    (probe.fn = "extract_reply_text" /\ probe.done) =>
        LET s == probe.start_index
            e == probe.end_index
            c == probe.content
        IN  /\ (0 <= s /\ s < e /\ e <= Len(c)) =>
                  /\ Len(probe.result) = e - s
                  /\ \A n \in 1..(e - s) : probe.result[n] = c[s + n]
            /\ ~(0 <= s /\ s < e /\ e <= Len(c)) => probe.result = <<>>
            /\ probe.result # <<>> <=> validate(s, e, c) = ""

\* The second character of a text of two was extracted: a range that ends at
\* the end of the content.
C24_Witness ==
    /\ probe.fn = "extract_reply_text" /\ probe.done
    /\ Len(probe.content) = 2
    /\ probe.start_index = 1 /\ probe.end_index = 2
    /\ probe.result = <<probe.content[2]>>

\* The request names a chat that does not exist (send-stream) or, in an
\* existing chat, a message that is not in it (reply-stream), in the tables as
\* they are when the request is taken up.
FailsBeforeStream(r) ==
    \/ r.kind = "send" /\ r.chat_id \notin chats
    \/ /\ r.kind = "reply"
       /\ r.chat_id \in chats
       /\ MessagesWith(r.chat_id, r.message_id) = {}

\* C25: when a streaming request fails before any fragment is produced (a
\* send-stream to a chat that does not exist, a reply-stream to a message that
\* is not in the chat), the stream has no non-final chunk and exactly one
\* frame, an error frame with is_final true, and no Message or ReplyMetadata
\* row is written.
C25_FailureBeforeStream ==
    [][\A i \in Inv :
          (pc[i] = "idle" /\ pc'[i] # "idle" /\ FailsBeforeStream(req'[i])) =>
             /\ pc'[i] = "done"
             /\ chunks'[i] = <<>>
             /\ Len(frames'[i]) = 1
             /\ IsErrorFrame(frames'[i][1])
             /\ IsFinalFrame(frames'[i][1])
             /\ frames'[i][1].data.error
                    = (IF req'[i].kind = "send" THEN "ChatNotFoundError"
                       ELSE "MessageNotFoundError")
             /\ messages' = messages
             /\ reply_metadata' = reply_metadata
      ]_vars

\* A send-stream to a chat that does not exist and a reply-stream to a message
\* that does not exist have both ended, and no row has been written.
C25_Witness ==
    /\ messages = <<>>
    /\ \E i, j \in Inv :
          /\ pc[i] = "done" /\ req[i].kind = "send"
          /\ req[i].chat_id \notin chats
          /\ frames[i] = <<SseError("ChatNotFoundError")>>
          /\ pc[j] = "done" /\ req[j].kind = "reply"
          /\ req[j].chat_id \in chats
          /\ MessagesWith(req[j].chat_id, req[j].message_id) = {}
          /\ frames[j] = <<SseError("MessageNotFoundError")>>

\* A line of the stream is a data frame ("data: <json>") or a comment line
\* (": <text>").
IsDataFrame(f) == "data" \in DOMAIN f
IsCommentFrame(f) == "comment" \in DOMAIN f

\* C29 as stated: the stream opens with a comment/prelude line, emitted before
\* the first data frame.
C29_Original ==
    \A i \in Inv : frames[i] # <<>> => IsCommentFrame(frames[i][1])

\* C29: the stream has no comment/prelude line. Every line the SSE generator
\* emits is a data frame, and the stream opens with the data frame of the
\* first chunk of the engine or, when the request fails before any chunk,
\* with the error frame.
C29_OpensWithDataFrame ==
    \A i \in Inv :
       /\ \A k \in 1..Len(frames[i]) : IsDataFrame(frames[i][k])
       /\ frames[i] # <<>> =>
             \/ chunks[i] # <<>> /\ frames[i][1] = SseData(chunks[i][1])
             \/ chunks[i] = <<>> /\ frames[i] = <<SseError(outcome[i])>>

\* A stream of a fragment chunk and the final chunk has ended, beside a
\* stream that consists of the error frame.
C29_Witness ==
    \E i, j \in Inv :
       /\ pc[i] = "done" /\ Len(frames[i]) = 2
       /\ frames[i][1] = SseData(chunks[i][1]) /\ ~chunks[i][1].is_final
       /\ pc[j] = "done" /\ chunks[j] = <<>> /\ Len(frames[j]) = 1
       /\ IsErrorFrame(frames[j][1])

\* The messages of the chat created strictly before every message of the
\* walked chain.
OlderThanChain(chat_id, ids) ==
    {m \in {messages[n] : n \in RowsOfChat(Db, chat_id)} :
        \A j \in 1..Len(ids) :
           \A c \in MessagesWith(chat_id, ids[j]) : m.created_at < c.created_at}

\* C30: when the walked chain has k < 10 turns, _get_reply_chain puts before
\* them the min(10 - k, m) newest messages of the chat that are strictly older
\* than the oldest chain message (m their number), oldest first and with their
\* full content; none of them is a chain message and the result has at most 10
\* turns.  When k >= 10 nothing is put before the chain.
C30_BackfillNewestOlder ==
    ChainCalled =>
        LET ids   == Ancestry(probe.chat_id, probe.message_id)
            k     == Len(ids)
            older == OlderThanChain(probe.chat_id, ids)
            m     == Cardinality(older)
            b     == IF k >= MinLength THEN 0
                     ELSE IF MinLength - k < m THEN MinLength - k ELSE m
        IN  /\ probe.result.error = ""
            /\ Len(probe.result.chain) = k + b
            /\ k < MinLength => Len(probe.result.chain) <= MinLength
            /\ \E p \in [1..b -> older] :
                  /\ \A x, y \in 1..b : x < y => p[x].created_at <= p[y].created_at
                  /\ \A x, y \in 1..b : x # y => p[x].id # p[y].id
                  /\ \A o \in older :
                        (\A x \in 1..b : p[x].id # o.id) =>
                           \A x \in 1..b : o.created_at <= p[x].created_at
                  /\ \A x \in 1..b :
                        /\ probe.result.chain[x]
                              = MessageContextRepresentation(p[x].content, p[x].sender)
                        /\ \A j \in 1..k : p[x].id # ids[j]

\* Every row of the table before the step that is still in the table after it
\* (a row of the same id) has the same fields.
RowsKept(before, after) ==
    \A k \in 1..Len(before), n \in 1..Len(after) :
       after[n].id = before[k].id => after[n] = before[k]

\* C28: no operation changes a field of a persisted Message or of a persisted
\* ReplyMetadata row; the only change to an existing row is update_chat
\* changing the title of a chat (and with it updated_at, never created_at),
\* and the AI message of a stream is inserted once, when the stream ends, with
\* its final content.
C28_RowsImmutable ==
    [][/\ RowsKept(messages, messages')
       /\ RowsKept(reply_metadata, reply_metadata')
       /\ \A c \in chats \cap chats' :
             chat_fields'[c] # chat_fields[c] =>
                /\ chat_fields'[c].title # chat_fields[c].title
                /\ chat_fields'[c].updated_at > chat_fields[c].updated_at
                /\ chat_fields'[c].created_at = chat_fields[c].created_at
                /\ messages' = messages
                /\ reply_metadata' = reply_metadata
       /\ \A i \in Inv :
             LET old == {k \in 1..Len(messages) : messages[k].id = message_id'[i]}
                 new == {n \in 1..Len(messages') : messages'[n].id = message_id'[i]}
             IN  /\ Cardinality(new) <= 1
                 /\ (message_id'[i] # 0 /\ old = {} /\ new # {}) =>
                       /\ pc[i] = "streaming" /\ pc'[i] = "done"
                       /\ \A n \in new :
                             /\ messages'[n].content = strip(accumulated_content'[i])
                             /\ messages'[n].sender = AI
      ]_vars

\* The title of chat c1 was changed and a stream stored its AI message, beside
\* the message and the reply metadata row the tables held before.
C28_Witness ==
    /\ "c1" \in chats
    /\ chat_fields["c1"].title = "t2"
    /\ \E i \in Inv : pc[i] = "done" /\ AIRowsOf(i) # {} /\ message_id[i] # 0
    /\ \E k \in 1..Len(messages) : messages[k] = StoredMessage(1, FALSE)
    /\ reply_metadata # <<>>

\* C31: the shortened form of a text of the side-channel note is at most 100
\* characters long whatever the length of the text: a text of at most 100
\* characters is used unchanged, a longer one becomes head + ellipsis + tail of
\* at most 100 characters in all.
C31_ShortenedAtMostLimit ==
    (probe.fn = "shorten" /\ probe.done) =>
        /\ Len(probe.result) <= NoteLimit
        /\ Len(probe.text) <= NoteLimit => probe.result = probe.text
        /\ Len(probe.text) > NoteLimit =>
              \E h, t \in 0..NoteLimit :
                 probe.result = SubSeq(probe.text, 1, h) \o Ellipsis
                     \o SubSeq(probe.text, Len(probe.text) - t + 1, Len(probe.text))

\* C32: in the reply stream the note handed to the backend quotes the
\* (shortened) excerpt the new reply quotes, the content of the message replied
\* to from reply_metadata.start_index to reply_metadata.end_index, and the
\* (shortened) content of the new reply; the note is part of the system
\* message and is none of the conversational turns.
C32_NoteQuotesExcerpt ==
    (/\ probe.fn = "reply_context"
     /\ probe.chat_id \in chats
     /\ \E m \in MessagesWith(probe.chat_id, probe.message_id) :
           /\ 0 <= probe.reply_data.reply_metadata.start_index
           /\ probe.reply_data.reply_metadata.start_index
                  < probe.reply_data.reply_metadata.end_index
           /\ probe.reply_data.reply_metadata.end_index <= Len(m.content)) =>
        /\ probe.result.error = ""
        /\ \E m \in MessagesWith(probe.chat_id, probe.message_id) :
              LET md    == probe.reply_data.reply_metadata
                  note  == <<shorten(SubSeq(m.content, md.start_index + 1,
                                            md.end_index)),
                             shorten(probe.reply_data.content)>>
                  first == probe.result.messages_for_llm[1]
              IN  /\ first.role = "system"
                  /\ first.content = <<system_prompt_reply, note>>
                  /\ \A n \in 2..Len(probe.result.messages_for_llm) :
                        probe.result.messages_for_llm[n].role # "system"

\* What llm.astream has delivered to the invocation, without the empty chunks.
NonEmptyDelivered(i) == SelectSeq(llm_chunks[i], LAMBDA f : f # <<>>)

\* C33: the contents of the non-final chunks an invocation has emitted are the
\* backend's fragments with the empty ones removed, in the same order and one
\* chunk per fragment; no non-final chunk has empty content, and only the last
\* chunk of an invocation can be final.
C33_PassThrough ==
    \A i \in Inv :
       /\ Len(NonFinal(i)) = Len(NonEmptyDelivered(i))
       /\ \A k \in 1..Len(NonFinal(i)) :
             /\ NonFinal(i)[k].content = NonEmptyDelivered(i)[k]
             /\ NonFinal(i)[k].content # <<>>
             /\ NonFinal(i)[k].message_id = message_id[i]
       /\ \A k \in 1..Len(chunks[i]) :
             chunks[i][k].is_final => k = Len(chunks[i])
       /\ accumulated_content[i] = Emitted(i)

\* The backend delivered an empty chunk and then a letter; the invocation
\* emitted one non-final chunk, the letter, and then the final chunk.
C33_Witness ==
    \E i \in Inv :
       /\ llm_chunks[i] = << <<>>, <<"a">> >>
       /\ Len(chunks[i]) = 2
       /\ chunks[i][1].content = <<"a">> /\ ~chunks[i][1].is_final
       /\ chunks[i][2].is_final

\* ceil(n / d)
CeilDiv(n, d) == (n + d - 1) \div d

DataModelHolds(chat_id) ==
    /\ \A k \in RowsOfChat(Db, chat_id) : messages[k].content # <<>>
    /\ \A k \in RowsOfChat(Db, chat_id) :
          \A md \in ReplyMetadataOf(messages[k].id) :
             \A parent \in MessagesWith(chat_id, md.parent_id) :
                /\ 0 <= md.start_index
                /\ md.start_index < md.end_index
                /\ md.end_index <= Len(parent.content)

C36_CommitBeforeFinalChunk ==
    [][\A i \in Inv :
          /\ persist_runs[i] >= 1 => NonFinal(i)' = NonFinal(i)
          /\ Finals(i)' # <<>> =>
                /\ persist_runs'[i] = 1
                /\ strip(accumulated_content'[i]) # <<>> =>
                      \E k \in 1..Len(messages') :
                         /\ messages'[k].id = Finals(i)'[1].message_id
                         /\ messages'[k].content = strip(accumulated_content'[i])
                         /\ messages'[k].sender = AI
                         /\ messages'[k].chat_id = req'[i].chat_id
      ]_vars

\* An invocation emitted the letter a and then the final chunk, and the AI
\* message a is stored under the id the final chunk carries.
C36_Witness ==
    \E i \in Inv :
       /\ Ended(i) /\ outcome[i] = "completed"
       /\ Len(chunks[i]) = 2 /\ chunks[i][2].is_final
       /\ \E k \in 1..Len(messages) :
             /\ messages[k].id = chunks[i][2].message_id
             /\ messages[k].content = <<"a">>

\* The rows of table messages that hold the user's message of the request.
UserRowsOf(i) ==
    {k \in 1..Len(messages) :
        /\ messages[k].chat_id = req[i].chat_id
        /\ messages[k].content = req[i].content
        /\ messages[k].sender = req[i].sender}

\* C37: in a streaming invocation the user's message (send-stream) or the
\* user's reply with its metadata (reply-stream) is committed before the
\* context is assembled and before the first chunk is emitted, and it stays
\* stored when the context assembly, the generation or the persistence of the
\* AI message fails afterwards.
C37_UserMessageCommittedFirst ==
    \A i \in Inv :
       /\ (req[i].kind = "send" /\ (Reached(i) \/ chunks[i] # <<>>)) =>
             \E k \in UserRowsOf(i) : messages[k].id = message_id[i] - 1
       /\ (pc[i] # "idle" /\ ValidReply(i)) =>
             \E k \in UserRowsOf(i) :
                \E n \in MetadataOf(reply_metadata, messages[k].id) :
                   /\ reply_metadata[n].start_index
                         = req[i].reply_metadata.start_index
                   /\ reply_metadata[n].end_index
                         = req[i].reply_metadata.end_index

\* C38: get_message(chat_id, message_id) returns a message only when a message
\* of that id is stored and belongs to chat_id, and it is then that message;
\* for an id that is stored only in another chat, or not at all, it raises
\* MessageNotFoundError, and so does a reply to such an id in an existing chat.
C38_GetMessageOfChatOnly ==
    /\ probe.fn = "get_message" =>
          /\ probe.result.error \in {"", "MessageNotFoundError"}
          /\ probe.result.error = "" <=>
                \E k \in 1..Len(messages) :
                   /\ messages[k].id = probe.message_id
                   /\ messages[k].chat_id = probe.chat_id
          /\ probe.result.error = "" =>
                /\ probe.result.message.id = probe.message_id
                /\ probe.result.message.chat_id = probe.chat_id
    /\ (/\ probe.fn = "reply_context"
        /\ probe.chat_id \in chats
        /\ MessagesWith(probe.chat_id, probe.message_id) = {}) =>
          probe.result.error = "MessageNotFoundError"

\* get_message was called for chat c1 with the id of a message of chat c2 and
\* raised MessageNotFoundError.
C38_Witness ==
    /\ probe.fn = "get_message"
    /\ probe.chat_id = "c1"
    /\ \E k \in 1..Len(messages) :
          messages[k].id = probe.message_id /\ messages[k].chat_id = "c2"
    /\ probe.result.error = "MessageNotFoundError"

\* The invocations that ended with a non-empty trimmed text and a commit that
\* did not fail.
PersistingInvocations ==
    {i \in Inv : /\ Ended(i)
                 /\ strip(accumulated_content[i]) # <<>>
                 /\ outcome[i] # "DatabaseError"}

\* C39: for streaming invocations that run interleaved on the same chat, each
\* persists only its own accumulated text under its own pre-allocated id: the
\* ids of different invocations differ, the AI message of an invocation holds
\* the trimmed text of the fragments delivered to that invocation, and there
\* are as many AI messages as invocations that ended with a non-empty trimmed
\* text (and a commit that did not fail).
C39_OwnTextOwnId ==
    /\ \A i, j \in Inv :
          (i # j /\ Reached(i) /\ Reached(j)) => message_id[i] # message_id[j]
    /\ \A i \in Inv :
          Reached(i) =>
             /\ accumulated_content[i] = Concat([k \in 1..Len(llm_chunks[i]) |->
                                                   [content |-> llm_chunks[i][k]]])
             /\ \A k \in AIRowsOf(i) :
                   /\ messages[k].content = strip(accumulated_content[i])
                   /\ messages[k].chat_id = req[i].chat_id
                   /\ messages[k].sender = AI
    /\ Cardinality({k \in 1..Len(messages) : messages[k].sender = AI})
          = Cardinality(PersistingInvocations)
    /\ \A i \in PersistingInvocations : Cardinality(AIRowsOf(i)) = 1

\* Two invocations streamed on chat c1 at the same time and each stored its AI
\* message: the second was taken up before the first ended and ended first.
C39_Witness ==
    /\ Cardinality(PersistingInvocations) = 2
    /\ \A i \in Inv : req[i].chat_id = "c1"
    /\ Len(messages) = 4
    /\ messages[1].sender = USER /\ messages[2].sender = USER
    /\ messages[3].id = message_id[2]
    /\ messages[4].id = message_id[1]

====
